---- MODULE Spec2Model ----
(***************************************************************************)
(* Model of the gesture-hud AR spellcaster: gesture tracker, particle      *)
(* engine, spell registry (mana, cooldowns, active spells), screen effects *)
(* and the SpellEngine frame.                                              *)
(*                                                                         *)
(* Units. Python floats are modelled as scaled integers:                   *)
(*   time, durations, dt ........ milliseconds                             *)
(*   normalized positions ....... 1/1000 of the frame (0.5 -> 500)         *)
(*   velocities ................. 1/1000 of the frame per second           *)
(*   mana ....................... 1/1000 of a mana point (20 -> 20000)     *)
(*   alpha, decay, drag ......... 1/1000                                   *)
(*   particle size .............. 1/1000 of a pixel                        *)
(*   shield radius .............. 1/1000000 of the frame                   *)
(* Products of two scaled values are divided by the scale (floor).         *)
(* random.* draws are nondeterministic choices from small sets.            *)
(***************************************************************************)
EXTENDS Integers, Sequences, FiniteSets, TLC

VARIABLES
    clock,              \* time.time(), ms
    \* ---- ParticleEngine
    max_particles,      \* ParticleEngine.max_particles
    particles,          \* ParticleEngine._particles
    next_pid,           \* identity of the next Particle object created
    \* ---- SpellRegistry
    mana,               \* ManaSystem: [max_mana, current_mana, regen_rate]
    cooldowns,          \* SpellCooldown.cooldowns: name -> ready timestamp
    active_spells,      \* SpellRegistry._active_spells
    next_sid,           \* identity of the next Spell object created
    screen_fx,          \* ScreenEffects: [shake, flash, aberration]
    audio_last,         \* last sound requested from AudioPlayer.play
    \* ---- GestureTracker
    tracker,            \* GestureTracker's private fields
    \* ---- SpellEngine
    engine,             \* SpellEngine's own state
    \* ---- observation
    op,                 \* [name, ret, ...]: last operation, its inputs and result
    armed,              \* spell name -> [at, duration, via] of its latest cooldown trigger
    \* ---- HUD
    hud,                \* WidgetRegistry._widgets and the ModeMenu's fields
    \* ---- collaborators
    handles,            \* Camera, HandTracker, ObjectDetector, AudioPlayer: private fields
    threads,            \* playback threads started by AudioPlayer.play: id -> position
    run                 \* position of SpellEngine.run

vars == <<clock, max_particles, particles, next_pid, mana, cooldowns,
          active_spells, next_sid, screen_fx, audio_last, tracker, engine, op, armed,
          hud, handles, threads, run>>

lateVars == <<hud, handles, threads, run>>

(***************************************************************************)
(* Helpers                                                                 *)
(***************************************************************************)
Max(a, b) == IF a >= b THEN a ELSE b
Min(a, b) == IF a <= b THEN a ELSE b
Abs(a) == IF a >= 0 THEN a ELSE -a
Take(s, n) == SubSeq(s, 1, Min(n, Len(s)))
Range(s) == {s[i] : i \in 1..Len(s)}

(***************************************************************************)
(* Bounds of the model                                                     *)
(***************************************************************************)
StartClock == 10000     \* time.time() when the model starts (never 0)
MaxPid == 4             \* Particle objects created in the particle runs
MaxBatch == 2           \* longest batch handed to emit in the particle runs
MaxPool == 3            \* largest configured max_particles
RegistrySpan == 1000    \* ms of clock followed in the registry runs
TrackerSpan == 500      \* ms of clock followed in the tracker runs
SwipeSpan == 700        \* ms of clock followed in the swipe runs
SwipeSamples == 5       \* samples gathered in the position history in the swipe runs
EngineSpan == 600       \* ms of clock followed in the engine runs
CooldownSpan == 1200    \* ms of clock followed in the cooldown runs
SpellSpan == 5600       \* ms of clock followed in the single-spell runs
SpellPool == 1          \* max_particles in the single-spell and lifecycle runs
LifeSpan == 5600        \* ms of clock followed in the lifecycle runs
LifeCastWindow == 100   \* ms at the start of a lifecycle run in which spells are cast
MaxCasts == 3           \* spells cast in a lifecycle run
HudSpan == 1700         \* ms of clock followed in the HUD runs
FxSpan == 400           \* ms of clock followed in the screen effect runs
ManaSpan == 1000           \* SpecMana runs this long after StartClock (ms)
RecastSpan == 1000         \* SpecRecast runs this long after StartClock (ms)
SteadySpan == 1100         \* SpecSteady runs this long after StartClock (ms)
ShieldSpan == 1200         \* SpecShield runs this long after StartClock (ms)
MaxInitAttempts == 2       \* initialisation attempts of one handle that are followed
MaxDetectFrames == 6       \* ObjectDetector.detect calls (run frames are 3 and 6)
MaxThreads == 2            \* playback threads started by AudioPlayer.play

(***************************************************************************)
(* Particle (src/particles/engine.py)                                      *)
(***************************************************************************)
NewParticle(x, y, vx, vy, ax, size, lifetime, size_decay, gravity, drag, shape) ==
    [id |-> 0, x |-> x, y |-> y, vx |-> vx, vy |-> vy, ax |-> ax, ay |-> 0,
     size |-> size, lifetime |-> lifetime, age |-> 0, alpha |-> 1000,
     decay_rate |-> 1000, size_decay |-> size_decay, gravity |-> gravity,
     drag |-> drag, shape |-> shape]

\* Particle.alive
ParticleAlive(p) == p.age < p.lifetime /\ p.alpha > 10 /\ p.size > 500

\* Particle.update(dt)
ParticleUpdate(p, dt) ==
    LET drag_factor == Max(0, 1000 - (p.drag * dt) \div 1000)
        vx1 == IF p.drag > 0 THEN (p.vx * drag_factor) \div 1000 ELSE p.vx
        vy1 == IF p.drag > 0 THEN (p.vy * drag_factor) \div 1000 ELSE p.vy
        vy2 == vy1 + (p.gravity * dt) \div 1000
        vx3 == vx1 + (p.ax * dt) \div 1000
        vy3 == vy2 + (p.ay * dt) \div 1000
        age1 == p.age + dt
    IN [p EXCEPT !.vx = vx3, !.vy = vy3,
                 !.x = p.x + (vx3 * dt) \div 1000,
                 !.y = p.y + (vy3 * dt) \div 1000,
                 !.age = age1,
                 !.alpha = Max(0, 1000 - (age1 * p.decay_rate) \div p.lifetime),
                 !.size = Max(0, p.size - (p.size_decay * dt) \div 1000)]

\* Object identity of the Particle objects of a freshly built batch
Stamp(batch, first) == [i \in 1..Len(batch) |-> [batch[i] EXCEPT !.id = first + i - 1]]

\* variant: emit ignores the capacity
EngineEmitNoLimit(pool, batch, maxp) == pool \o batch

\* ParticleEngine.emit(particles): the pool after the call
EngineEmit(pool, batch, maxp) ==
    LET space == maxp - Len(pool)
    IN IF space <= 0 THEN pool ELSE pool \o Take(batch, space)

\* variant: the dead are filtered out before the physics step
EngineUpdateFilterFirst(pool, dt) ==
    LET kept == SelectSeq(pool, ParticleAlive)
    IN [i \in 1..Len(kept) |-> ParticleUpdate(kept[i], dt)]

\* ParticleEngine.update(dt): the pool after the call
EngineUpdate(pool, dt) ==
    LET moved == [i \in 1..Len(pool) |-> ParticleUpdate(pool[i], dt)]
    IN SelectSeq(moved, ParticleAlive)

\* emit called once per batch, in order
RECURSIVE EmitAll(_, _, _)
EmitAll(pool, batches, maxp) ==
    IF batches = <<>> THEN pool
    ELSE EmitAll(EngineEmit(pool, Head(batches), maxp), Tail(batches), maxp)

(***************************************************************************)
(* Emitters (src/particles/emitters.py) and the particles the spells build *)
(* themselves.  rnd \in Draws selects the low (0) or the high (1) end of   *)
(* every random.uniform range and the sign of the direction drawn; the     *)
(* Gaussian position jitter is taken at its mean.  Particles built by the  *)
(* spells carry id 0: their identity is followed only in the particle runs.*)
(***************************************************************************)
Draws == {0, 1}
Pick(lo, hi, rnd) == IF rnd = 0 THEN lo ELSE hi
Sign(rnd) == IF rnd = 0 THEN 1 ELSE -1
Rep(n, p) == [i \in 1..n |-> p]

\* BurstEmitter.emit
BurstEmit(cfg, x, y, rnd) ==
    Rep(cfg.count,
        NewParticle(x, y, Sign(rnd) * Pick(cfg.speed_min, cfg.speed_max, rnd), 0, 0,
                    Pick(cfg.size_min, cfg.size_max, rnd),
                    Pick(cfg.lifetime_min, cfg.lifetime_max, rnd),
                    0, cfg.gravity, cfg.drag, cfg.shape))

\* RingEmitter.emit
RingEmit(cfg, x, y, rnd) ==
    Rep(cfg.count,
        NewParticle(x + cfg.radius, y, cfg.speed, 0, 0, cfg.size,
                    cfg.lifetime + Pick(-50, 50, rnd), 0, 0, cfg.drag, cfg.shape))

\* TrailEmitter.emit
TrailEmit(cfg, x, y, rnd) ==
    Rep(cfg.count_per_emit,
        NewParticle(x, y, Sign(rnd) * 10, 0, 0,
                    Pick(cfg.size_min, cfg.size_max, rnd),
                    cfg.lifetime + Pick(-100, 100, rnd),
                    cfg.size_decay, cfg.gravity, cfg.drag, cfg.shape))

\* Fireball.__init__: self._trail, self._explosion
FireballTrail == [count_per_emit |-> 4, lifetime |-> 500, size_min |-> 3000,
                  size_max |-> 7000, gravity |-> 10, drag |-> 1500,
                  size_decay |-> 8000, shape |-> "circle"]
FireballExplosion == [count |-> 60, speed_min |-> 50, speed_max |-> 250,
                      lifetime_min |-> 300, lifetime_max |-> 800,
                      size_min |-> 3000, size_max |-> 8000, gravity |-> 50,
                      drag |-> 800, shape |-> "circle"]
\* Lightning.__init__: self._strike_spark
LightningSpark == [count |-> 15, speed_min |-> 30, speed_max |-> 120,
                   lifetime_min |-> 100, lifetime_max |-> 300,
                   size_min |-> 1000, size_max |-> 3000, gravity |-> 0,
                   drag |-> 1500, shape |-> "spark"]
\* ForcePush.__init__: self._ring_emitter
ForcePushRing == [count |-> 30, radius |-> 10, speed |-> 200, lifetime |-> 400,
                  size |-> 2000, drag |-> 500, shape |-> "circle"]
\* Teleport.__init__: self._burst
TeleportBurst == [count |-> 40, speed_min |-> 50, speed_max |-> 200,
                  lifetime_min |-> 200, lifetime_max |-> 500,
                  size_min |-> 1000, size_max |-> 4000, gravity |-> 0,
                  drag |-> 1000, shape |-> "spark"]

\* Wind._emit_debris(particles, count): the batch it hands to emit
WindDebris(direction, count, rnd) ==
    Rep(count,
        [NewParticle(IF direction > 0 THEN Pick(-50, 200, rnd) ELSE Pick(800, 1050, rnd),
                     Pick(100, 900, rnd), direction * Pick(300, 800, rnd), 0,
                     direction * 100, Pick(1500, 4000, rnd), Pick(500, 1000, rnd),
                     0, Pick(0, 20, rnd), 300, Pick("circle", "line", rnd))
         EXCEPT !.vy = Sign(rnd) * 50])

\* the single sparks built inline by Fireball.update, Shield.update,
\* Lightning.update and Teleport.update
FireballEmber(x, y, rnd) ==
    <<NewParticle(x, y, Sign(rnd) * 30, 0, 0, Pick(1000, 3000, rnd),
                  Pick(200, 400, rnd), 0, 0, 0, "spark")>>
ShieldSpark(x, y, radius, rnd) ==
    <<NewParticle(x + Sign(rnd) * (radius \div 1000), y, Sign(rnd) * 10, 0, 0,
                  Pick(1000, 3000, rnd), 300, 0, 0, 2000, "spark")>>
LightningFlicker(x, y, rnd) ==
    <<NewParticle(x, y, Sign(rnd) * 50, 0, 0, Pick(1000, 3000, rnd), 150,
                  0, 0, 0, "spark")>>
TeleportGlitch(rnd) ==
    <<NewParticle(Pick(100, 900, rnd), Pick(100, 900, rnd), 0, 0, 0,
                  Pick(1000, 3000, rnd), 100, 0, 0, 0, "spark")>>

(***************************************************************************)
(* Screen effects (src/effects/screen.py)                                  *)
(***************************************************************************)
\* ScreenEffects(): the three effects with their dataclass defaults
NoEffects == [shake |-> [intensity |-> 0, duration |-> 0, elapsed |-> 0],
              flash |-> [intensity |-> 0, duration |-> 0, elapsed |-> 0],
              aberration |-> [shift |-> 0, duration |-> 0, elapsed |-> 0]]

\* ScreenShake.trigger
ShakeTrigger(fx, intensity, duration) ==
    [fx EXCEPT !.shake = [intensity |-> intensity, duration |-> duration, elapsed |-> 0]]
\* ScreenFlash.trigger
FlashTrigger(fx, intensity, duration) ==
    [fx EXCEPT !.flash = [intensity |-> intensity, duration |-> duration, elapsed |-> 0]]
\* ChromaticAberration.trigger
AberrationTrigger(fx, shift, duration) ==
    [fx EXCEPT !.aberration = [shift |-> shift, duration |-> duration, elapsed |-> 0]]

\* ScreenShake.active / ScreenFlash.active / ChromaticAberration.active
ShakeActive(fx) == fx.shake.elapsed < fx.shake.duration /\ fx.shake.intensity > 0
FlashActive(fx) == fx.flash.elapsed < fx.flash.duration /\ fx.flash.intensity > 0
AberrationActive(fx) ==
    fx.aberration.elapsed < fx.aberration.duration /\ fx.aberration.shift > 0

\* ScreenEffects.active
EffectsActive(fx) == ShakeActive(fx) \/ FlashActive(fx) \/ AberrationActive(fx)

\* ScreenEffects.update that forwards dt to the shake only
EffectsUpdateShakeOnly(fx, dt) ==
    [fx EXCEPT !.shake = IF ShakeActive(fx) THEN [fx.shake EXCEPT !.elapsed = @ + dt]
                         ELSE fx.shake]

\* ScreenEffects.update(dt)
EffectsUpdate(fx, dt) ==
    [shake |-> IF ShakeActive(fx) THEN [fx.shake EXCEPT !.elapsed = @ + dt] ELSE fx.shake,
     flash |-> IF FlashActive(fx) THEN [fx.flash EXCEPT !.elapsed = @ + dt] ELSE fx.flash,
     aberration |-> IF AberrationActive(fx)
                    THEN [fx.aberration EXCEPT !.elapsed = @ + dt] ELSE fx.aberration]

(***************************************************************************)
(* Spells (src/spells/*.py)                                                *)
(***************************************************************************)
NoHand == -1000000      \* hand_x / hand_y is None

\* the class attributes name, mana_cost, cooldown of each Spell subclass
SpellKinds == {"Fireball", "Wind", "Shield", "Lightning", "ForcePush", "Teleport"}
SpellClass(kind) ==
    CASE kind = "Fireball"  -> [name |-> "fireball",   mana_cost |-> 20000, cooldown |-> 1500]
      [] kind = "Wind"      -> [name |-> "wind",       mana_cost |-> 10000, cooldown |-> 600]
      [] kind = "Shield"    -> [name |-> "shield",     mana_cost |-> 10000, cooldown |-> 500]
      [] kind = "Lightning" -> [name |-> "lightning",  mana_cost |-> 15000, cooldown |-> 800]
      [] kind = "ForcePush" -> [name |-> "force_push", mana_cost |-> 15000, cooldown |-> 1000]
      [] kind = "Teleport"  -> [name |-> "teleport",   mana_cost |-> 25000, cooldown |-> 2000]

\* math.sqrt on squared distances of normalized points
ISqrt(n) == CHOOSE r \in 0..1500 : r * r <= n /\ (r + 1) * (r + 1) > n

\* spell_class(): Spell.__init__ followed by the subclass __init__
SpellNew(kind, id) ==
    [id |-> id, kind |-> kind, state |-> "CASTING", elapsed |-> 0,
     origin_x |-> 500, origin_y |-> 500,
     x |-> 500, y |-> 500, vx |-> 0, vy |-> 0,       \* Fireball, Shield, ForcePush
     tx |-> 500, ty |-> 500,                         \* Lightning._target_x/_y
     explode_time |-> -1, exploded |-> FALSE,        \* Fireball
     radius |-> 0, dismissed |-> FALSE,              \* Shield
     direction |-> 1, emit_phase |-> 0,              \* Wind
     rings |-> <<>>]                                 \* ForcePush._rings

\* Spell.is_alive (the same body in every subclass)
IsAlive(s) == s.state # "DONE"

\* _ShockRing and _ShockRing.update
ShockRing(i) == [delay |-> i * 100, max_radius |-> 150 + i * 30,
                 speed |-> 400 - i * 50, radius |-> 0, elapsed |-> 0]
RingUpdate(r, dt) ==
    LET e == r.elapsed + dt
    IN [r EXCEPT !.elapsed = e,
                 !.radius = IF e >= r.delay THEN @ + (r.speed * dt) \div 1000 ELSE @]

\* Spell.cast(x, y, particles, screen_fx) of each subclass:
\* [spell, batches emitted in order, screen effects afterwards]
FireballCast(s, x, y, fx, rnd) ==
    LET dx == 500 - x
        dy == 500 - y
        dist == ISqrt(dx * dx + dy * dy)
        far == dist > 10
    IN [spell |-> [s EXCEPT !.origin_x = x, !.origin_y = y, !.x = x, !.y = y,
                            !.vx = IF far THEN (dx * 400) \div dist ELSE 0,
                            !.vy = IF far THEN (dy * 400) \div dist ELSE -400,
                            !.state = "ACTIVE"],
        batches |-> <<TrailEmit(FireballTrail, x, y, rnd)>>,
        fx |-> fx]

ShieldCast(s, x, y, fx, rnd) ==
    [spell |-> [s EXCEPT !.origin_x = x, !.origin_y = y, !.x = x, !.y = y,
                         !.state = "ACTIVE"],
     batches |-> <<>>,
     fx |-> FlashTrigger(fx, 200, 100)]

WindCast(s, x, y, fx, rnd) ==
    [spell |-> [s EXCEPT !.origin_x = x, !.origin_y = y, !.state = "ACTIVE"],
     batches |-> <<WindDebris(s.direction, 30, rnd)>>,
     fx |-> ShakeTrigger(fx, 5000, 150)]

LightningCast(s, x, y, fx, rnd) ==
    [spell |-> [s EXCEPT !.origin_x = x, !.origin_y = y, !.tx = x, !.ty = y,
                         !.state = "ACTIVE"],
     batches |-> <<BurstEmit(LightningSpark, x, y, rnd)>>,
     fx |-> ShakeTrigger(FlashTrigger(fx, 500, 100), 8000, 150)]

ForcePushCast(s, x, y, fx, rnd) ==
    [spell |-> [s EXCEPT !.origin_x = x, !.origin_y = y, !.x = x, !.y = y,
                         !.state = "ACTIVE",
                         !.rings = @ \o <<ShockRing(0), ShockRing(1), ShockRing(2)>>],
     batches |-> <<RingEmit(ForcePushRing, x, y, rnd)>>,
     fx |-> FlashTrigger(ShakeTrigger(fx, 12000, 200), 300, 100)]

TeleportCast(s, x, y, fx, rnd) ==
    [spell |-> [s EXCEPT !.origin_x = x, !.origin_y = y, !.state = "ACTIVE"],
     batches |-> <<BurstEmit(TeleportBurst, x, y, rnd)>>,
     fx |-> ShakeTrigger(FlashTrigger(AberrationTrigger(fx, 8, 300), 600, 80), 6000, 100)]

SpellCast(s, x, y, fx, rnd) ==
    CASE s.kind = "Fireball"  -> FireballCast(s, x, y, fx, rnd)
      [] s.kind = "Wind"      -> WindCast(s, x, y, fx, rnd)
      [] s.kind = "Shield"    -> ShieldCast(s, x, y, fx, rnd)
      [] s.kind = "Lightning" -> LightningCast(s, x, y, fx, rnd)
      [] s.kind = "ForcePush" -> ForcePushCast(s, x, y, fx, rnd)
      [] s.kind = "Teleport"  -> TeleportCast(s, x, y, fx, rnd)

\* variant: dismiss without the ACTIVE guard
ShieldDismissUnguarded(s) == [s EXCEPT !.dismissed = TRUE, !.state = "FADING"]

\* Shield.dismiss
ShieldDismiss(s) ==
    IF s.state = "ACTIVE" THEN [s EXCEPT !.dismissed = TRUE, !.state = "FADING"] ELSE s

\* Wind.set_direction
WindSetDirection(s, direction) ==
    [s EXCEPT !.direction = IF direction >= 0 THEN 1 ELSE -1]

\* variant: the shield never expires by itself
ShieldUpdateNoExpiry(s, dt, hx, hy, rnd) ==
    LET e == s.elapsed + dt
        tracked == hx # NoHand /\ hy # NoHand
        x1 == IF tracked THEN s.x + ((hx - s.x) * 300) \div 1000 ELSE s.x
        y1 == IF tracked THEN s.y + ((hy - s.y) * 300) \div 1000 ELSE s.y
        r1 == s.radius + ((80000 - s.radius) * 5 * dt) \div 1000
        r2 == s.radius - dt * 300
    IN CASE s.state = "ACTIVE" ->
              [spell |-> [s EXCEPT !.elapsed = e, !.x = x1, !.y = y1, !.radius = r1],
               batches |-> IF rnd = 1 THEN <<ShieldSpark(x1, y1, r1, rnd)>> ELSE <<>>]
         [] s.state = "FADING" ->
              [spell |-> [s EXCEPT !.elapsed = e, !.radius = r2,
                                   !.state = IF r2 <= 0 THEN "DONE" ELSE @],
               batches |-> <<>>]
         [] OTHER ->
              [spell |-> [s EXCEPT !.elapsed = e], batches |-> <<>>]

\* Spell.update(dt, particles, hand_x, hand_y) of each subclass:
\* [spell, batches emitted in order].  rnd = 1: the random.random() draws
\* fall below their thresholds (the optional spark is emitted).
FireballUpdate(s, dt, rnd) ==
    LET e == s.elapsed + dt
        x1 == s.x + (s.vx * dt) \div 1000
        y1 == s.y + (s.vy * dt) \div 1000
        trail == <<TrailEmit(FireballTrail, x1, y1, rnd)>>
        ember == IF rnd = 1 THEN <<FireballEmber(x1, y1, rnd)>> ELSE <<>>
        boom == e >= 1200 \/ x1 < -100 \/ x1 > 1100 \/ y1 < -100 \/ y1 > 1100
    IN CASE s.state = "DONE" ->
              [spell |-> [s EXCEPT !.elapsed = e], batches |-> <<>>]
         [] s.state = "ACTIVE" ->
              [spell |-> [s EXCEPT !.elapsed = e, !.x = x1, !.y = y1,
                                   !.exploded = IF boom THEN TRUE ELSE @,
                                   !.explode_time = IF boom THEN e ELSE @,
                                   !.state = IF boom THEN "FADING" ELSE @],
               batches |-> trail \o ember \o
                           (IF boom THEN <<BurstEmit(FireballExplosion, x1, y1, rnd)>>
                            ELSE <<>>)]
         [] s.state = "FADING" ->
              [spell |-> [s EXCEPT !.elapsed = e,
                                   !.state = IF e - s.explode_time > 800 THEN "DONE" ELSE @],
               batches |-> <<>>]
         [] OTHER ->
              [spell |-> [s EXCEPT !.elapsed = e], batches |-> <<>>]

ShieldUpdate(s, dt, hx, hy, rnd) ==
    LET e == s.elapsed + dt
        tracked == hx # NoHand /\ hy # NoHand
        x1 == IF tracked THEN s.x + ((hx - s.x) * 300) \div 1000 ELSE s.x
        y1 == IF tracked THEN s.y + ((hy - s.y) * 300) \div 1000 ELSE s.y
        r1 == s.radius + ((80000 - s.radius) * 5 * dt) \div 1000
        moved == [s EXCEPT !.elapsed = e, !.x = x1, !.y = y1, !.radius = r1]
        r2 == s.radius - dt * 300
    IN CASE s.state = "DONE" ->
              [spell |-> [s EXCEPT !.elapsed = e], batches |-> <<>>]
         [] s.state = "ACTIVE" ->
              [spell |-> IF e >= 5000 THEN ShieldDismiss(moved) ELSE moved,
               batches |-> IF rnd = 1 THEN <<ShieldSpark(x1, y1, r1, rnd)>> ELSE <<>>]
         [] s.state = "FADING" ->
              [spell |-> [s EXCEPT !.elapsed = e, !.radius = r2,
                                   !.state = IF r2 <= 0 THEN "DONE" ELSE @],
               batches |-> <<>>]
         [] OTHER ->
              [spell |-> [s EXCEPT !.elapsed = e], batches |-> <<>>]

WindUpdate(s, dt, rnd) ==
    LET e == s.elapsed + dt
        phase == s.emit_phase + dt
        wave == e < 480 /\ phase > 50
    IN IF s.state = "DONE"
       THEN [spell |-> [s EXCEPT !.elapsed = e], batches |-> <<>>]
       ELSE [spell |-> [s EXCEPT !.elapsed = e,
                                 !.emit_phase = IF wave THEN 0 ELSE phase,
                                 !.state = IF e >= 800 THEN "DONE" ELSE @],
             batches |-> IF wave THEN <<WindDebris(s.direction, 8, rnd)>> ELSE <<>>]

\* variant: the push fades out when its duration is over
ForcePushUpdateFading(s, dt) ==
    LET e == s.elapsed + dt
    IN IF s.state = "DONE"
       THEN [spell |-> [s EXCEPT !.elapsed = e], batches |-> <<>>]
       ELSE [spell |-> [s EXCEPT !.elapsed = e,
                                 !.rings = [i \in 1..Len(@) |-> RingUpdate(@[i], dt)],
                                 !.state = IF e >= 800 THEN "FADING" ELSE @],
             batches |-> <<>>]

LightningUpdate(s, dt, hx, hy, rnd) ==
    LET e == s.elapsed + dt
        tracked == hx # NoHand /\ hy # NoHand
        tx1 == IF tracked THEN hx ELSE s.tx
        ty1 == IF tracked THEN hy ELSE s.ty
    IN IF s.state = "DONE"
       THEN [spell |-> [s EXCEPT !.elapsed = e], batches |-> <<>>]
       ELSE [spell |-> [s EXCEPT !.elapsed = e, !.tx = tx1, !.ty = ty1,
                                 !.state = IF e >= 600 THEN "DONE" ELSE @],
             batches |-> IF rnd = 1 THEN <<LightningFlicker(tx1, ty1, rnd)>> ELSE <<>>]

ForcePushUpdate(s, dt) ==
    LET e == s.elapsed + dt
    IN IF s.state = "DONE"
       THEN [spell |-> [s EXCEPT !.elapsed = e], batches |-> <<>>]
       ELSE [spell |-> [s EXCEPT !.elapsed = e,
                                 !.rings = [i \in 1..Len(@) |-> RingUpdate(@[i], dt)],
                                 !.state = IF e >= 800 THEN "DONE" ELSE @],
             batches |-> <<>>]

TeleportUpdate(s, dt, rnd) ==
    LET e == s.elapsed + dt
    IN IF s.state = "DONE"
       THEN [spell |-> [s EXCEPT !.elapsed = e], batches |-> <<>>]
       ELSE [spell |-> [s EXCEPT !.elapsed = e,
                                 !.state = IF e >= 500 THEN "DONE" ELSE @],
             \* progress = elapsed / 0.5 < 0.7
             batches |-> IF rnd = 1 /\ e * 10 < 7 * 500
                         THEN <<TeleportGlitch(rnd)>> ELSE <<>>]

SpellUpdate(s, dt, hx, hy, rnd) ==
    CASE s.kind = "Fireball"  -> FireballUpdate(s, dt, rnd)
      [] s.kind = "Wind"      -> WindUpdate(s, dt, rnd)
      [] s.kind = "Shield"    -> ShieldUpdate(s, dt, hx, hy, rnd)
      [] s.kind = "Lightning" -> LightningUpdate(s, dt, hx, hy, rnd)
      [] s.kind = "ForcePush" -> ForcePushUpdate(s, dt)
      [] s.kind = "Teleport"  -> TeleportUpdate(s, dt, rnd)

(***************************************************************************)
(* ManaSystem and SpellCooldown (src/spells/registry.py)                   *)
(***************************************************************************)
DefaultCurrentMana == 100000    \* ManaSystem.current_mana: float = 100.0

\* ManaSystem(max_mana=max_mana, regen_rate=mana_regen)
ManaNew(max_mana, regen_rate) ==
    [max_mana |-> max_mana, current_mana |-> DefaultCurrentMana, regen_rate |-> regen_rate]

\* variant: the mana check always passes
CanCastAlways(m, cost) == TRUE

\* ManaSystem.can_cast
CanCast(m, cost) == m.current_mana >= cost

\* variant: spend deducts the cost without the balance check
ManaSpendUnchecked(m, cost) ==
    [mana |-> [m EXCEPT !.current_mana = @ - cost], ok |-> TRUE]

\* ManaSystem.spend: [mana afterwards, returned bool]
ManaSpend(m, cost) ==
    IF m.current_mana < cost
    THEN [mana |-> m, ok |-> FALSE]
    ELSE [mana |-> [m EXCEPT !.current_mana = @ - cost], ok |-> TRUE]

\* ManaSystem.regenerate
ManaRegenerate(m, dt) ==
    [m EXCEPT !.current_mana = Min(m.max_mana, @ + (m.regen_rate * dt) \div 1000)]

\* self.cooldowns.get(spell_name, 0)
CooldownGet(cd, name) == IF name \in DOMAIN cd THEN cd[name] ELSE 0

\* SpellCooldown.is_ready, with time.time() = now
CooldownIsReady(cd, name, now) == now >= CooldownGet(cd, name)

\* variant: the ready timestamp forgets the duration
CooldownTriggerNow(cd, name, duration, now) ==
    [n \in DOMAIN cd \cup {name} |-> IF n = name THEN now ELSE cd[n]]

\* SpellCooldown.trigger, with time.time() = now
CooldownTrigger(cd, name, duration, now) ==
    [n \in DOMAIN cd \cup {name} |-> IF n = name THEN now + duration ELSE cd[n]]

\* SpellCooldown.remaining
CooldownRemaining(cd, name, now) == Max(0, CooldownGet(cd, name) - now)

(***************************************************************************)
(* SpellRegistry (src/spells/registry.py)                                  *)
(***************************************************************************)
GestureEvents == {"NONE", "TAP", "HOLD_START", "HOLD_END",
                  "SWIPE_LEFT", "SWIPE_RIGHT", "SWIPE_UP", "SWIPE_DOWN"}

\* SpellRegistry.register
Register(map, trigger, kind) ==
    [t \in DOMAIN map \cup {trigger} |-> IF t = trigger THEN kind ELSE map[t]]

\* SpellEngine._register_spells: the registry's _gesture_map
GestureMap ==
    LET m0 == [t \in {} |-> "Shield"]
        m1 == Register(m0, "hold_start_fist", "Shield")
        m2 == Register(m1, "hold_start_open_palm", "ForcePush")
        m3 == Register(m2, "hold_start_point", "Lightning")
        m4 == Register(m3, "swipe_left", "Wind")
        m5 == Register(m4, "swipe_right", "Wind")
        m6 == Register(m5, "hold_start_pinch", "Teleport")
    IN Register(m6, "swipe_up", "Fireball")

\* event_map.get(event) in SpellRegistry._event_to_trigger ("" for no entry)
EventBase(event) ==
    CASE event = "SWIPE_LEFT"  -> "swipe_left"
      [] event = "SWIPE_RIGHT" -> "swipe_right"
      [] event = "SWIPE_UP"    -> "swipe_up"
      [] event = "SWIPE_DOWN"  -> "swipe_down"
      [] event = "TAP"         -> "tap"
      [] event = "HOLD_START"  -> "hold_start"
      [] event = "HOLD_END"    -> "hold_end"
      [] OTHER                 -> ""

\* SpellRegistry._event_to_trigger
EventToTrigger(event, gesture_name) ==
    LET base == EventBase(event)
    IN IF base = "" THEN ""
       ELSE IF gesture_name # "" THEN base \o "_" \o gesture_name
       ELSE base

None == 0       \* a returned None (Spell ids start at 1)

\* variant: the cooldown is looked up under the trigger key
CastDecisionByTrigger(event, gesture_name, m, cd, now) ==
    LET trigger == EventToTrigger(event, gesture_name)
    IN IF trigger = "" THEN ""
       ELSE IF trigger \notin DOMAIN GestureMap THEN ""
       ELSE LET cls == SpellClass(GestureMap[trigger])
            IN IF ~CooldownIsReady(cd, trigger, now) THEN ""
               ELSE IF ~CanCast(m, cls.mana_cost) THEN ""
               ELSE GestureMap[trigger]

\* The decision of SpellRegistry.handle_event: the spell class it will cast,
\* or "" when it returns None before casting
CastDecision(event, gesture_name, m, cd, now) ==
    LET trigger == EventToTrigger(event, gesture_name)
    IN IF trigger = "" THEN ""
       ELSE IF trigger \notin DOMAIN GestureMap THEN ""
       ELSE LET cls == SpellClass(GestureMap[trigger])
            IN IF ~CooldownIsReady(cd, cls.name, now) THEN ""
               ELSE IF ~CanCast(m, cls.mana_cost) THEN ""
               ELSE GestureMap[trigger]

\* variant: the cooldown is armed with no duration
ArmCooldownNoDuration(cd, cls, now) == CooldownTrigger(cd, cls.name, 0, now)

\* The cooldown the cast arms: self.cooldowns.trigger(spell_class.name, spell_class.cooldown)
ArmCooldown(cd, cls, now) == CooldownTrigger(cd, cls.name, cls.cooldown, now)

\* self._active_spells.append(spell)
AppendSpell(list, spell) == Append(list, spell)

\* The registry with the engines it was constructed with, as one value
Reg == [mana |-> mana, cooldowns |-> cooldowns, active_spells |-> active_spells,
        next_sid |-> next_sid, screen_fx |-> screen_fx, audio_last |-> audio_last,
        particles |-> particles]

\* SpellRegistry.handle_event(event, hand_x, hand_y, gesture_name) at time now:
\* [registry afterwards, returned spell id or None, class cast or ""]
HandleEventOn(R, event, hx, hy, gesture_name, rnd, now, maxp) ==
    LET kind == CastDecision(event, gesture_name, R.mana, R.cooldowns, now)
    IN IF kind = ""
       THEN [reg |-> R, ret |-> None, kind |-> ""]
       ELSE LET cls == SpellClass(kind)
                c == SpellCast(SpellNew(kind, R.next_sid), hx, hy, R.screen_fx, rnd)
            IN [reg |-> [mana |-> ManaSpend(R.mana, cls.mana_cost).mana,
                         cooldowns |-> ArmCooldown(R.cooldowns, cls, now),
                         active_spells |-> AppendSpell(R.active_spells, c.spell),
                         next_sid |-> R.next_sid + 1,
                         screen_fx |-> c.fx,
                         audio_last |-> cls.name,
                         particles |-> EmitAll(R.particles, c.batches, maxp)],
                ret |-> c.spell.id, kind |-> kind]

\* The loop "for spell in self._active_spells: spell.update(...)" of
\* SpellRegistry.update: [spells afterwards, pool afterwards]
RECURSIVE UpdateSpells(_, _, _, _, _, _, _, _)
UpdateSpells(list, i, dt, hx, hy, rnd, pool, maxp) ==
    IF i > Len(list) THEN [spells |-> list, pool |-> pool]
    ELSE LET u == SpellUpdate(list[i], dt, hx, hy, rnd)
         IN UpdateSpells([list EXCEPT ![i] = u.spell], i + 1, dt, hx, hy, rnd,
                         EmitAll(pool, u.batches, maxp), maxp)

\* variant: nothing is filtered out
KeepAll(list) == list

\* "self._active_spells = [s for s in self._active_spells if s.is_alive()]"
KeepAlive(list) == SelectSeq(list, IsAlive)

\* SpellRegistry.update(dt, hand_x, hand_y): the registry afterwards
RegistryUpdateOn(R, dt, hx, hy, rnd, maxp) ==
    LET u == UpdateSpells(R.active_spells, 1, dt, hx, hy, rnd, R.particles, maxp)
    IN [R EXCEPT !.mana = ManaRegenerate(R.mana, dt),
                 !.active_spells = KeepAlive(u.spells),
                 !.particles = u.pool]

\* the registry's variables take the values of R
SetReg(R) ==
    /\ mana' = R.mana
    /\ cooldowns' = R.cooldowns
    /\ active_spells' = R.active_spells
    /\ next_sid' = R.next_sid
    /\ screen_fx' = R.screen_fx
    /\ audio_last' = R.audio_last
    /\ particles' = R.particles

(***************************************************************************)
(* GestureRecognizer (src/gestures/recognizer.py). A hand is                *)
(* [finger_extended, thumb_tip, index_tip, wrist]: the Finger -> bool dict *)
(* and the three landmarks classify reads, each [x, y] in 1/1000.          *)
(***************************************************************************)
\* class Finger(IntEnum)
THUMB == 0
INDEX == 1
MIDDLE == 2
\* GestureRecognizer._is_pinch: sqrt(dx^2 + dy^2) < 0.05, compared squared
IsPinch(hand) ==
    (hand.thumb_tip.x - hand.index_tip.x) * (hand.thumb_tip.x - hand.index_tip.x)
      + (hand.thumb_tip.y - hand.index_tip.y) * (hand.thumb_tip.y - hand.index_tip.y) < 50 * 50

\* GestureRecognizer._is_thumb_up_orientation
IsThumbUpOrientation(hand) == hand.wrist.y - hand.thumb_tip.y > 80

\* variant: the pinch test comes first
ClassifyPinchFirst(hand) ==
    LET ext == hand.finger_extended
        num_extended == Cardinality({f \in DOMAIN ext : ext[f]})
    IN IF IsPinch(hand) THEN [gesture |-> "PINCH", confidence |-> 850]
       ELSE IF num_extended = 0 THEN [gesture |-> "FIST", confidence |-> 900]
       ELSE IF num_extended = 5 THEN [gesture |-> "OPEN_PALM", confidence |-> 900]
       ELSE [gesture |-> "NONE", confidence |-> 500]

\* GestureRecognizer.classify: [gesture, confidence in 1/1000]; Get is
\* ext.get(finger, False), num_extended is HandData.num_fingers_extended
Classify(hand) ==
    LET ext == hand.finger_extended
        Get(f) == f \in DOMAIN ext /\ ext[f]
        num_extended == Cardinality({f \in DOMAIN ext : ext[f]})
    IN IF num_extended = 0 THEN [gesture |-> "FIST", confidence |-> 900]
       ELSE IF num_extended = 5 THEN [gesture |-> "OPEN_PALM", confidence |-> 900]
       ELSE IF IsPinch(hand) THEN [gesture |-> "PINCH", confidence |-> 850]
       ELSE IF Get(THUMB) /\ num_extended = 1 /\ IsThumbUpOrientation(hand)
            THEN [gesture |-> "THUMBS_UP", confidence |-> 850]
       ELSE IF Get(INDEX) /\ num_extended = 1
            THEN [gesture |-> "POINT", confidence |-> 900]
       ELSE IF Get(INDEX) /\ Get(THUMB) /\ num_extended = 2
            THEN [gesture |-> "POINT", confidence |-> 800]
       ELSE IF Get(INDEX) /\ Get(MIDDLE) /\ num_extended = 2
            THEN [gesture |-> "PEACE", confidence |-> 850]
       ELSE [gesture |-> "NONE", confidence |-> 500]

(***************************************************************************)
(* GestureTracker (src/gestures/tracker.py)                                *)
(***************************************************************************)
GestureTypes == {"NONE", "FIST", "OPEN_PALM", "POINT", "PINCH", "THUMBS_UP", "PEACE"}

\* GesturesConfig as the tracker tests configure it
DebounceFrames == 2
HoldDuration == 300
TapMaxDuration == 200
SwipeThreshold == 150
\* constants of GestureTracker
HistoryMaxLen == 30
SwipeMinSamples == 5
SwipeMinSpan == 100
SwipeMaxSpan == 500

NoResult == [gesture |-> "", x |-> NoHand, y |-> NoHand]     \* gesture_result is None
Result(g, x, y) == [gesture |-> g, x |-> x, y |-> y]

\* GestureTracker.__init__ / GestureTracker.reset
TrackerNew ==
    [current_gesture |-> "NONE", gesture_start_time |-> 0, is_holding |-> FALSE,
     debounce_counter |-> 0, pending_gesture |-> "NONE", position_history |-> <<>>]

\* deque(maxlen=30).append
HistoryAppend(h, e) == IF Len(h) >= HistoryMaxLen THEN Append(Tail(h), e) ELSE Append(h, e)

\* _check_tap without the upper limit on the duration
CheckTapAnyDuration(t, now) ==
    IF t.gesture_start_time = 0 THEN FALSE
    ELSE 0 < now - t.gesture_start_time

\* GestureTracker._check_tap
CheckTap(t, now) ==
    IF t.gesture_start_time = 0 THEN FALSE
    ELSE LET duration == now - t.gesture_start_time
         IN 0 < duration /\ duration < TapMaxDuration

\* _detect_swipe without the test of the time span
DetectSwipeAnySpan(h) ==
    IF Len(h) < SwipeMinSamples THEN "NONE"
    ELSE LET dx == h[Len(h)].x - h[1].x
             dy == h[Len(h)].y - h[1].y
         IN IF Abs(dx) > SwipeThreshold /\ Abs(dx) > Abs(dy)
                 THEN (IF dx > 0 THEN "SWIPE_RIGHT" ELSE "SWIPE_LEFT")
            ELSE IF Abs(dy) > SwipeThreshold /\ Abs(dy) > Abs(dx)
                 THEN (IF dy > 0 THEN "SWIPE_DOWN" ELSE "SWIPE_UP")
            ELSE "NONE"

\* GestureTracker._detect_swipe
DetectSwipe(h) ==
    IF Len(h) < SwipeMinSamples THEN "NONE"
    ELSE LET recent == h[Len(h)]
             oldest == h[1]
             dt == recent.t - oldest.t
             dx == recent.x - oldest.x
             dy == recent.y - oldest.y
         IN IF dt < SwipeMinSpan \/ dt > SwipeMaxSpan THEN "NONE"
            ELSE IF Abs(dx) > SwipeThreshold /\ Abs(dx) > Abs(dy)
                 THEN (IF dx > 0 THEN "SWIPE_RIGHT" ELSE "SWIPE_LEFT")
            ELSE IF Abs(dy) > SwipeThreshold /\ Abs(dy) > Abs(dx)
                 THEN (IF dy > 0 THEN "SWIPE_DOWN" ELSE "SWIPE_UP")
            ELSE "NONE"

\* The event of a confirmed gesture change or of a lost hand:
\* "if self._is_holding: HOLD_END elif self._check_tap(now): TAP"
EndEvent(t, now, event) ==
    IF t.is_holding THEN "HOLD_END"
    ELSE IF CheckTap(t, now) THEN "TAP"
    ELSE event

\* update(None) that leaves self._is_holding as it was
UpdateNoHandKeepHolding(t, now) ==
    [tracker |-> [t EXCEPT !.current_gesture = "NONE"],
     state |-> [current_gesture |-> "NONE",
                event |-> IF t.current_gesture # "NONE"
                          THEN (IF t.is_holding THEN "HOLD_END"
                                ELSE IF 0 < now - t.gesture_start_time
                                        /\ now - t.gesture_start_time < TapMaxDuration
                                     THEN "TAP" ELSE "NONE")
                          ELSE "NONE",
                gesture_start_time |-> 0, is_holding |-> FALSE,
                hand_x |-> NoHand, hand_y |-> NoHand],
     swipe |-> "NONE"]

\* GestureTracker.update(None): [tracker afterwards, returned GestureState, swipe detected]
UpdateNoHand(t, now) ==
    LET active == t.current_gesture # "NONE"
    IN [tracker |-> IF active
                    THEN [t EXCEPT !.is_holding = FALSE, !.current_gesture = "NONE"]
                    ELSE t,
        state |-> [current_gesture |-> "NONE",
                   event |-> IF active THEN EndEvent(t, now, "NONE") ELSE "NONE",
                   gesture_start_time |-> 0, is_holding |-> FALSE,
                   hand_x |-> NoHand, hand_y |-> NoHand],
        swipe |-> "NONE"]

\* The debounce step of GestureTracker.update for new_gesture # current:
\* the (pending_gesture, debounce_counter) afterwards, before a confirmation
Debounce(t, new_gesture) ==
    IF new_gesture = t.pending_gesture
    THEN [pending |-> t.pending_gesture, counter |-> t.debounce_counter + 1]
    ELSE [pending |-> new_gesture, counter |-> 1]

\* The event slot when a hold starts, were HOLD_START to replace a swipe
HoldStartEventAlways(event) == "HOLD_START"

\* The event slot when a hold starts: "if event == NONE: event = HOLD_START"
HoldStartEvent(event) == IF event = "NONE" THEN "HOLD_START" ELSE event

\* GestureTracker.update(gesture_result) with a hand
UpdateHand(t, r, now) ==
    LET h1 == HistoryAppend(t.position_history, [x |-> r.x, y |-> r.y, t |-> now])
        swipe == DetectSwipe(h1)
        h2 == IF swipe # "NONE" THEN <<>> ELSE h1
        d == Debounce(t, r.gesture)
        confirmed == d.counter >= DebounceFrames
        holds == /\ ~t.is_holding
                 /\ t.current_gesture # "NONE"
                 /\ now - t.gesture_start_time >= HoldDuration
        t1 == IF r.gesture # t.current_gesture
              THEN IF confirmed
                   THEN [t EXCEPT !.position_history = h2,
                                  !.pending_gesture = d.pending,
                                  !.is_holding = FALSE,
                                  !.current_gesture = r.gesture,
                                  !.gesture_start_time = now,
                                  !.debounce_counter = 0]
                   ELSE [t EXCEPT !.position_history = h2,
                                  !.pending_gesture = d.pending,
                                  !.debounce_counter = d.counter]
              ELSE [t EXCEPT !.position_history = h2,
                             !.debounce_counter = 0,
                             !.pending_gesture = "NONE",
                             !.is_holding = IF holds THEN TRUE ELSE @]
        event == IF r.gesture # t.current_gesture
                 THEN (IF confirmed THEN EndEvent(t, now, swipe) ELSE swipe)
                 ELSE (IF holds THEN HoldStartEvent(swipe) ELSE swipe)
    IN [tracker |-> t1,
        state |-> [current_gesture |-> t1.current_gesture, event |-> event,
                   gesture_start_time |-> t1.gesture_start_time,
                   is_holding |-> t1.is_holding, hand_x |-> r.x, hand_y |-> r.y],
        swipe |-> swipe]

\* GestureTracker.update
TrackerUpdate(t, r, now) ==
    IF r = NoResult THEN UpdateNoHand(t, now) ELSE UpdateHand(t, r, now)

(***************************************************************************)
(* SpellEngine (src/core/engine.py)                                        *)
(***************************************************************************)
FrameDtCap == 100       \* dt = min(now - self._last_time, 0.1)

\* gesture_result.gesture.name.lower()
LowerName(g) ==
    CASE g = "NONE"      -> "none"
      [] g = "FIST"      -> "fist"
      [] g = "OPEN_PALM" -> "open_palm"
      [] g = "POINT"     -> "point"
      [] g = "PINCH"     -> "pinch"
      [] g = "THUMBS_UP" -> "thumbs_up"
      [] g = "PEACE"     -> "peace"

\* SpellEngine.__init__ and the start of run()
EngineNew(now) ==
    [running |-> TRUE, frame_count |-> 0, last_time |-> now,
     active_shield |-> None, last_gesture_name |-> ""]

\* "hand_x or 0.5": None and 0.0 are both falsy
OrHalf(v) == IF v = NoHand \/ v = 0 THEN 500 ELSE v

\* The gesture name SpellEngine._handle_gesture_event passes to handle_event
EventGestureName(e) == e.last_gesture_name

\* SpellEngine._handle_gesture_event: [registry, engine, ret, kind] afterwards
HandleGestureEvent(R, e, event, hx, hy, rnd, now, maxp) ==
    LET h == HandleEventOn(R, event, hx, hy, EventGestureName(e), rnd, now, maxp)
        n == Len(h.reg.active_spells)
        directed == IF h.kind = "Wind"
                    THEN [h.reg EXCEPT !.active_spells[n] =
                              WindSetDirection(@, IF event = "SWIPE_LEFT" THEN -1 ELSE 1)]
                    ELSE h.reg
    IN [reg |-> directed,
        engine |-> IF h.kind = "Shield" THEN [e EXCEPT !.active_shield = h.ret] ELSE e,
        ret |-> h.ret, kind |-> h.kind]

\* variant: the hold end dismisses nothing
DismissNothing(R, e) == [reg |-> R, engine |-> e]

\* SpellEngine._dismiss_active_shield: [registry, engine] afterwards.
\* A shield no longer in the active list was removed because it is DONE.
DismissActiveShield(R, e) ==
    LET held == {i \in 1..Len(R.active_spells) : R.active_spells[i].id = e.active_shield}
    IN IF e.active_shield # None /\ held # {}
          /\ \A i \in held : IsAlive(R.active_spells[i])
       THEN [reg |-> [R EXCEPT !.active_spells =
                          [i \in 1..Len(@) |-> IF i \in held THEN ShieldDismiss(@[i])
                                                ELSE @[i]]],
             engine |-> [e EXCEPT !.active_shield = None]]
       ELSE [reg |-> R, engine |-> e]

(***************************************************************************)
(* HUD widgets and the mode menu (src/hud/widgets.py, src/hud/menu.py)     *)
(***************************************************************************)
HUDMode == {"COMBAT", "SCAN", "NAVIGATION"}
MODE_ORDER == <<"COMBAT", "SCAN", "NAVIGATION">>

\* the active_modes the widget classes declare
ActiveModes(name) ==
    IF name \in {"mode_menu", "stats"} THEN HUDMode ELSE {"COMBAT", "SCAN"}

\* ModeMenu.__init__
MenuNew ==
    [current_mode |-> "COMBAT", transition_start |-> 0, transitioning |-> FALSE,
     transition_from |-> "COMBAT"]

\* is_active without the test of the mode
WidgetIsActiveAnyMode(w, mode) == w.enabled

\* HUDWidget.is_active
WidgetIsActive(w, mode) == w.enabled /\ mode \in ActiveModes(w.name)

\* WidgetRegistry.get_active: the positions of the active widgets, in list order
GetActive(W, mode) ==
    LET F[i \in 0..Len(W)] ==
            IF i = 0 THEN <<>>
            ELSE IF WidgetIsActive(W[i], mode) THEN Append(F[i - 1], i) ELSE F[i - 1]
    IN F[Len(W)]

\* _switch_mode that stops at the ends of MODE_ORDER instead of wrapping
SwitchModeClamped(menu, direction, now) ==
    [menu EXCEPT !.transition_from = menu.current_mode,
                 !.current_mode =
                     LET current_idx == CHOOSE i \in 1..Len(MODE_ORDER) : MODE_ORDER[i] = @
                     IN MODE_ORDER[Max(1, Min(Len(MODE_ORDER), current_idx + direction))],
                 !.transitioning = TRUE,
                 !.transition_start = now]

\* ModeMenu._switch_mode; current_idx is MODE_ORDER.index(mode), counted from 1
SwitchMode(menu, direction, now) ==
    [menu EXCEPT !.transition_from = menu.current_mode,
                 !.current_mode =
                     LET current_idx == CHOOSE i \in 1..Len(MODE_ORDER) : MODE_ORDER[i] = @
                     IN MODE_ORDER[((current_idx - 1 + direction) % Len(MODE_ORDER)) + 1],
                 !.transitioning = TRUE,
                 !.transition_start = now]

\* gesture_state is None
NoGestureState == "no gesture state"

\* ModeMenu.update(state), state = [mode, event]: [menu, state] afterwards
MenuUpdate(menu, st, now) ==
    IF st.event = NoGestureState THEN [menu |-> menu, state |-> st]
    ELSE LET m1 == IF st.event = "SWIPE_LEFT" THEN SwitchMode(menu, -1, now)
                   ELSE IF st.event = "SWIPE_RIGHT" THEN SwitchMode(menu, 1, now)
                   ELSE menu
             m2 == IF m1.transitioning /\ now - m1.transition_start > 1000
                   THEN [m1 EXCEPT !.transitioning = FALSE] ELSE m1
         IN [menu |-> m2, state |-> [st EXCEPT !.mode = m1.current_mode]]

\* WidgetRegistry.update_all(state) is this loop over act = get_active(state.mode),
\* here from its k-th entry on: [widgets, menu, state, visited], where
\* visited lists [at, saw]: the position of each widget whose update ran and
\* the state.mode it was handed
RECURSIVE UpdateLoop(_, _, _, _, _, _, _)
UpdateLoop(W, menu, st, act, k, visited, now) ==
    IF k > Len(act) THEN [widgets |-> W, menu |-> menu, state |-> st, visited |-> visited]
    ELSE LET i == act[k]
             v == Append(visited, [at |-> i, saw |-> st.mode])
         IN IF W[i].name = "mode_menu"
            THEN LET u == MenuUpdate(menu, st, now)
                 IN UpdateLoop([W EXCEPT ![i].updated = @ + 1, ![i].seen = st.mode],
                               u.menu, u.state, act, k + 1, v, now)
            ELSE UpdateLoop([W EXCEPT ![i].updated = @ + 1, ![i].seen = st.mode],
                            menu, st, act, k + 1, v, now)

\* WidgetRegistry.render_all(overlay, state): the widgets afterwards; no
\* render hook writes to the state or to the menu
RenderAll(W, st) ==
    [i \in 1..Len(W) |->
        IF WidgetIsActive(W[i], st.mode)
        THEN [W[i] EXCEPT !.rendered = @ + 1, !.seen = st.mode] ELSE W[i]]

\* WidgetRegistry.__init__ with the one ModeMenu object of the host
HudNew == [widgets |-> <<>>, menu |-> MenuNew, trail |-> <<>>]

(***************************************************************************)
(* Lazily initialised collaborators (src/vision/hands.py,                  *)
(* src/vision/detector.py, src/audio/player.py) and the camera             *)
(***************************************************************************)
RunEveryNFrames == 3        \* DetectionConfig.run_every_n_frames

\* Camera, HandTracker, ObjectDetector and AudioPlayer after __init__.
\* attempts counts the initialisation attempts of each (observation only);
\* lock is the id of the thread that holds AudioPlayer._lock, 0 when free.
HandlesNew ==
    [camera |-> [cap |-> FALSE],
     hand_tracker |-> [initialized |-> FALSE, landmarker |-> FALSE, attempts |-> 0],
     detector |-> [initialized |-> FALSE, model |-> FALSE, frame_counter |-> 0,
                   cached |-> "none", attempts |-> 0],
     audio |-> [enabled |-> TRUE, initialized |-> FALSE, sd |-> FALSE, lock |-> 0,
                attempts |-> 0]]

\* HandTracker.process(frame): [hand_tracker, ret]. ok: HandTracker.initialize
\* succeeds (model download, mediapipe import, create_from_options); found is
\* what the landmarker reports ("none": no hand, or a detection error)
HandTrackerProcess(h, ok, found) ==
    IF h.initialized THEN [hand_tracker |-> h, ret |-> found]
    ELSE IF ok
         THEN [hand_tracker |-> [h EXCEPT !.landmarker = TRUE, !.initialized = TRUE,
                                          !.attempts = @ + 1],
               ret |-> found]
         ELSE [hand_tracker |-> [h EXCEPT !.attempts = @ + 1], ret |-> "none"]

\* ObjectDetector.detect(frame): [detector, ret]. ok: ObjectDetector.initialize
\* succeeds; found is what the model returns, "error" when the model call
\* raises (the cached list is returned)
DetectorDetect(d, ok, found) ==
    LET d0 == [d EXCEPT !.frame_counter = @ + 1]
        d1 == IF d0.initialized THEN d0
              ELSE IF ok THEN [d0 EXCEPT !.model = TRUE, !.initialized = TRUE,
                                         !.attempts = @ + 1]
              ELSE [d0 EXCEPT !.attempts = @ + 1]
    IN IF d0.frame_counter % RunEveryNFrames # 0
       THEN [detector |-> d0, ret |-> d0.cached]
       ELSE IF ~d1.initialized THEN [detector |-> d1, ret |-> "none"]
       ELSE IF found = "error" THEN [detector |-> d1, ret |-> d1.cached]
       ELSE [detector |-> [d1 EXCEPT !.cached = found], ret |-> found]

\* variant: _initialized is set only when the import succeeded
EnsureInitUntilSuccess(a, ok) ==
    IF a.initialized THEN [audio |-> a, ret |-> a.sd]
    ELSE [audio |-> [a EXCEPT !.initialized = ok, !.sd = ok, !.attempts = @ + 1],
          ret |-> ok]

\* AudioPlayer._ensure_init, ok: sounddevice can be imported: [audio, ret]
EnsureInit(a, ok) ==
    IF a.initialized THEN [audio |-> a, ret |-> a.sd]
    ELSE [audio |-> [a EXCEPT !.initialized = TRUE, !.sd = ok, !.attempts = @ + 1],
          ret |-> ok]

\* variant: _cleanup releases nothing
CleanupHandlesNoRelease(H) == H

\* SpellEngine._cleanup on the collaborators: camera.release(),
\* hand_tracker.release(), audio.stop() (which releases nothing it holds)
CleanupHandles(H) ==
    [H EXCEPT !.camera.cap = FALSE,
              !.hand_tracker.initialized = IF H.hand_tracker.landmarker THEN FALSE ELSE @,
              !.hand_tracker.landmarker = FALSE]

(***************************************************************************)
(* Initial values shared by the specifications                             *)
(***************************************************************************)
NoOp == [name |-> "init", ret |-> None]

\* the record of a cooldown trigger: who was triggered, when and for how long
Armed(a, name, duration, now, via) ==
    [n \in DOMAIN a \cup {name} |->
        IF n = name THEN [at |-> now, duration |-> duration, via |-> via] ELSE a[n]]

InitParticleEngine(maxp) ==
    /\ max_particles = maxp
    /\ particles = <<>>
    /\ next_pid = 1

\* SpellRegistry.__init__(particles, screen_fx, audio, max_mana, mana_regen)
InitRegistry(max_mana, mana_regen) ==
    /\ mana = ManaNew(max_mana, mana_regen)
    /\ cooldowns = [n \in {} |-> 0]
    /\ active_spells = <<>>
    /\ next_sid = 1
    /\ screen_fx = NoEffects
    /\ audio_last = ""

\* the HUD, the collaborators and SpellEngine.run before anything was called;
\* run.cleanups counts the _cleanup calls
InitLate ==
    /\ hud = HudNew
    /\ handles = HandlesNew
    /\ threads = <<>>
    /\ run = [pc |-> "new", cleanups |-> 0]

InitRest ==
    /\ clock = StartClock
    /\ tracker = TrackerNew
    /\ engine = EngineNew(StartClock)
    /\ op = NoOp
    /\ armed = [n \in {} |-> [at |-> 0, duration |-> 0, via |-> ""]]
    /\ InitLate

(***************************************************************************)
(* SpecParticles: a ParticleEngine driven by emit, update and clear        *)
(***************************************************************************)
\* Particles a caller may hand to emit: ordinary, short-lived, fast-fading,
\* shrinking, and one that is already too small to be alive
Templates ==
    { NewParticle(500, 500, 100, 0, 0, 3000, 1000, 0, 0, 0, "circle"),
      NewParticle(500, 500, 0, -50, 0, 3000, 100, 0, 10, 500, "spark"),
      [NewParticle(500, 500, 0, 0, 0, 3000, 1000, 0, 0, 0, "line") EXCEPT !.decay_rate = 5000],
      NewParticle(500, 500, 0, 0, 0, 1000, 1000, 5000, 0, 0, "circle"),
      NewParticle(500, 500, 0, 0, 0, 400, 1000, 0, 0, 0, "circle") }

Emit(batch) ==
    /\ next_pid + Len(batch) <= MaxPid + 1
    /\ particles' = EngineEmit(particles, Stamp(batch, next_pid), max_particles)
    /\ next_pid' = next_pid + Len(batch)
    /\ op' = [name |-> "emit", ret |-> None, batch |-> Stamp(batch, next_pid)]
    /\ UNCHANGED <<clock, max_particles, mana, cooldowns, active_spells, next_sid,
                   screen_fx, audio_last, tracker, engine, armed, lateVars>>

Update(dt) ==
    /\ particles' = EngineUpdate(particles, dt)
    /\ op' = [name |-> "update", ret |-> None, dt |-> dt, before |-> Len(particles)]
    /\ UNCHANGED <<clock, max_particles, next_pid, mana, cooldowns, active_spells,
                   next_sid, screen_fx, audio_last, tracker, engine, armed, lateVars>>

\* ParticleEngine.clear
Clear ==
    /\ particles' = <<>>
    /\ op' = [name |-> "clear", ret |-> None]
    /\ UNCHANGED <<clock, max_particles, next_pid, mana, cooldowns, active_spells,
                   next_sid, screen_fx, audio_last, tracker, engine, armed, lateVars>>

InitParticles ==
    /\ \E maxp \in 0..MaxPool : InitParticleEngine(maxp)
    /\ InitRegistry(DefaultCurrentMana, 8000)
    /\ InitRest

NextParticles ==
    \/ \E batch \in (UNION {[1..k -> Templates] : k \in 0..MaxBatch}) : Emit(batch)
    \/ \E dt \in {0, 200} : Update(dt)
    \/ Clear

SpecParticles == InitParticles /\ [][NextParticles]_vars

(***************************************************************************)
(* SpecRegistry: a SpellRegistry with the engine's registrations, driven   *)
(* by handle_event, the per-frame update and clear                         *)
(***************************************************************************)

HandleEvent(event, hx, hy, gesture_name, rnd) ==
    \E h \in {HandleEventOn(Reg, event, hx, hy, gesture_name, rnd, clock, max_particles)} :
       /\ SetReg(h.reg)
       /\ op' = [name |-> "handle_event", ret |-> h.ret, event |-> event,
                 gesture_name |-> gesture_name, kind |-> h.kind]
       /\ armed' = IF h.ret = None THEN armed
                   ELSE Armed(armed, SpellClass(h.kind).name, SpellClass(h.kind).cooldown,
                              clock, EventToTrigger(event, gesture_name))
       /\ UNCHANGED <<clock, max_particles, next_pid, tracker, engine, lateVars>>

\* One frame later: the clock has advanced by d and the frame loop calls
\* SpellRegistry.update(dt) with dt = min(d, 0.1)
RegistryUpdate(d, hx, hy, rnd) ==
    /\ clock + d <= StartClock + RegistrySpan
    /\ clock' = clock + d
    /\ \E R1 \in {RegistryUpdateOn(Reg, Min(d, FrameDtCap), hx, hy, rnd, max_particles)} :
          SetReg(R1)
    /\ op' = [name |-> "registry_update", ret |-> None, dt |-> Min(d, FrameDtCap)]
    /\ UNCHANGED <<max_particles, next_pid, tracker, engine, armed, lateVars>>

\* SpellRegistry.clear
RegistryClear ==
    /\ active_spells # <<>>
    /\ active_spells' = <<>>
    /\ op' = [name |-> "registry_clear", ret |-> None]
    /\ UNCHANGED <<clock, max_particles, particles, next_pid, mana, cooldowns,
                   next_sid, screen_fx, audio_last, tracker, engine, armed, lateVars>>

InitSpecRegistry ==
    /\ InitParticleEngine(MaxPool)
    /\ \E m \in {50000, 100000} : InitRegistry(m, 8000)
    /\ InitRest

NextRegistry ==
    \/ \E ev \in {<<"NONE", "">>, <<"SWIPE_UP", "">>, <<"SWIPE_UP", "fist">>, <<"SWIPE_LEFT", "">>, <<"SWIPE_RIGHT", "">>, <<"HOLD_START", "fist">>}, rnd \in Draws :
          HandleEvent(ev[1], 500, 500, ev[2], rnd)
    \/ \E d \in {400, 600}, rnd \in Draws : RegistryUpdate(d, NoHand, NoHand, rnd)
    \/ RegistryClear

SpecRegistry == InitSpecRegistry /\ [][NextRegistry]_vars

(***************************************************************************)
(* SpecCooldown: a SpellCooldown driven by trigger and is_ready while the  *)
(* clock runs                                                              *)
(***************************************************************************)
CooldownNames == {"fireball", "wind", "shield"}
CooldownStep == 100

Tick ==
    /\ clock + CooldownStep <= StartClock + CooldownSpan
    /\ clock' = clock + CooldownStep
    /\ op' = [name |-> "tick", ret |-> None]
    /\ UNCHANGED <<max_particles, particles, next_pid, mana, cooldowns, active_spells,
                   next_sid, screen_fx, audio_last, tracker, engine, armed, lateVars>>

Trigger(name, duration) ==
    /\ cooldowns' = CooldownTrigger(cooldowns, name, duration, clock)
    /\ armed' = Armed(armed, name, duration, clock, "")
    /\ op' = [name |-> "trigger", ret |-> None, spell |-> name, duration |-> duration]
    /\ UNCHANGED <<clock, max_particles, particles, next_pid, mana, active_spells,
                   next_sid, screen_fx, audio_last, tracker, engine, lateVars>>

IsReady(name) ==
    /\ op' = [name |-> "is_ready", ret |-> None, spell |-> name,
              ready |-> CooldownIsReady(cooldowns, name, clock),
              remaining |-> CooldownRemaining(cooldowns, name, clock)]
    /\ UNCHANGED <<clock, max_particles, particles, next_pid, mana, cooldowns,
                   active_spells, next_sid, screen_fx, audio_last, tracker, engine, armed, lateVars>>

InitCooldown ==
    /\ InitParticleEngine(MaxPool)
    /\ InitRegistry(DefaultCurrentMana, 8000)
    /\ InitRest

NextCooldown ==
    \/ Tick
    \/ \E n \in CooldownNames \ {"shield"}, d \in ({SpellClass(k).cooldown : k \in {"Wind", "Shield"}} \cup {100}) : Trigger(n, d)
    \/ \E n \in CooldownNames : IsReady(n)

SpecCooldown == InitCooldown /\ [][NextCooldown]_vars

(***************************************************************************)
(* SpecTracker: a GestureTracker fed one GestureResult (or None) per frame *)
(***************************************************************************)
TrackerInputs ==
    {NoResult} \cup {Result(g, pt[1], pt[2]) : g \in {"NONE", "FIST", "OPEN_PALM"}, pt \in {<<500, 500>>, <<800, 500>>}}

\* The time at which the confirmed gesture of the tracker took its present
\* value: the construction or the reset of the tracker, or the last update
\* that changed self._current_gesture
ConfirmedSince == IF op.name = "update" THEN op.since ELSE clock

\* One frame: time.time() has advanced by d, then GestureTracker.update(r).
\* op keeps the input, the returned GestureState, the swipe detected, the
\* number of consecutive calls (this one included) that were fed this same
\* gesture, with the confirmed gesture before the first of them, and the
\* time since which the confirmed gesture has its value.
TrackFrame(d, r) ==
    LET now == clock + d
        same == op.name = "update" /\ op.input.gesture = r.gesture
    IN \E u \in {TrackerUpdate(tracker, r, now)} :
       /\ now <= StartClock + TrackerSpan
       /\ clock' = now
       /\ tracker' = u.tracker
       /\ op' = [name |-> "update", ret |-> None, input |-> r, state |-> u.state,
                 swipe |-> u.swipe,
                 run |-> IF same THEN op.run + 1 ELSE 1,
                 base |-> IF same THEN op.base ELSE tracker.current_gesture,
                 since |-> IF u.tracker.current_gesture # tracker.current_gesture
                           THEN now ELSE ConfirmedSince]
       /\ UNCHANGED <<max_particles, particles, next_pid, mana, cooldowns, active_spells,
                      next_sid, screen_fx, audio_last, engine, armed, lateVars>>

\* reset() that leaves self._is_holding as it was
TrackerResetKeepHolding ==
    /\ tracker # TrackerNew
    /\ tracker' = [TrackerNew EXCEPT !.is_holding = tracker.is_holding]
    /\ op' = [name |-> "reset", ret |-> None]
    /\ UNCHANGED <<clock, max_particles, particles, next_pid, mana, cooldowns,
                   active_spells, next_sid, screen_fx, audio_last, engine, armed, lateVars>>

\* GestureTracker.reset
TrackerReset ==
    /\ tracker # TrackerNew
    /\ tracker' = TrackerNew
    /\ op' = [name |-> "reset", ret |-> None]
    /\ UNCHANGED <<clock, max_particles, particles, next_pid, mana, cooldowns,
                   active_spells, next_sid, screen_fx, audio_last, engine, armed, lateVars>>

InitTracker ==
    /\ InitParticleEngine(MaxPool)
    /\ InitRegistry(DefaultCurrentMana, 8000)
    /\ InitRest

NextTracker ==
    \/ \E d \in {50, 300}, r \in TrackerInputs : TrackFrame(d, r)
    \/ TrackerReset

SpecTracker == InitTracker /\ [][NextTracker]_vars

(***************************************************************************)
(* SpecEngine: SpellEngine.run, one _process_frame per step                *)
(***************************************************************************)
EngineInputs ==
    {NoResult} \cup {Result(g, pt[1], pt[2]) : g \in {"FIST", "OPEN_PALM"}, pt \in {<<500, 500>>, <<500, 200>>, <<800, 500>>}}

\* the spell classes that are off cooldown and affordable at time now
Castable(R, now) ==
    {k \in SpellKinds : /\ CooldownIsReady(R.cooldowns, SpellClass(k).name, now)
                        /\ CanCast(R.mana, SpellClass(k).mana_cost)}

\* SpellEngine._process_frame with a frame from the camera: the hand tracker
\* and the recognizer deliver r (NoResult: no hand), time.time() has advanced by d
FrameBody(d, r, rnd) ==
    LET now == clock + d
        dt == Min(now - engine.last_time, FrameDtCap)
        e1 == [engine EXCEPT !.frame_count = @ + 1, !.last_time = now,
                             !.last_gesture_name =
                                 IF r = NoResult THEN @ ELSE LowerName(r.gesture)]
    IN /\ engine.running
       /\ \E u \in {TrackerUpdate(tracker, r, now)} :
          \E g \in {IF u.state.event # "NONE"
                    THEN HandleGestureEvent(Reg, e1, u.state.event, OrHalf(r.x),
                                            OrHalf(r.y), rnd, now, max_particles)
                    ELSE [reg |-> Reg, engine |-> e1, ret |-> None, kind |-> ""]} :
          \E s \in {IF u.state.event = "HOLD_END"
                    THEN DismissActiveShield(g.reg, g.engine)
                    ELSE [reg |-> g.reg, engine |-> g.engine]} :
          \E R3 \in {RegistryUpdateOn(s.reg, dt, r.x, r.y, rnd, max_particles)} :
             /\ clock' = now
             /\ tracker' = u.tracker
             /\ engine' = s.engine
             /\ SetReg([R3 EXCEPT !.particles = EngineUpdate(@, dt),
                                  !.screen_fx = EffectsUpdate(@, dt)])
             /\ op' = [name |-> "frame", ret |-> g.ret, kind |-> g.kind,
                       event |-> u.state.event, state |-> u.state,
                       castable |-> Castable(Reg, now),
                       gesture_name |-> e1.last_gesture_name, dt |-> dt]
             /\ armed' = IF g.ret = None THEN armed
                         ELSE Armed(armed, SpellClass(g.kind).name,
                                    SpellClass(g.kind).cooldown, now,
                                    EventToTrigger(u.state.event, e1.last_gesture_name))
       /\ UNCHANGED <<max_particles, next_pid, hud, threads>>

\* _process_frame with the hand tracker ready and the loop position left aside
ProcessFrame(d, r, rnd) ==
    /\ clock + d <= StartClock + EngineSpan
    /\ FrameBody(d, r, rnd)
    /\ UNCHANGED <<handles, run>>

\* SpellEngine._process_frame when camera.read() returns None
EndOfStream ==
    /\ engine.running
    /\ engine' = [engine EXCEPT !.running = FALSE]
    /\ op' = [name |-> "end_of_stream", ret |-> None]
    /\ UNCHANGED <<clock, max_particles, particles, next_pid, mana, cooldowns,
                   active_spells, next_sid, screen_fx, audio_last, tracker, armed, lateVars>>

InitEngine ==
    /\ InitParticleEngine(MaxPool)
    /\ InitRegistry(DefaultCurrentMana, 8000)
    /\ InitRest

NextEngine ==
    \/ \E d \in {100}, r \in EngineInputs, rnd \in Draws : ProcessFrame(d, r, rnd)
    \/ EndOfStream

SpecEngine == InitEngine /\ [][NextEngine]_vars

(***************************************************************************)
(* SpecSpell: one Spell object, constructed, cast once and then driven by  *)
(* update, render and (for a Shield) dismiss, as the spell tests drive it. *)
(* active_spells holds the object; nothing filters it, so the object is    *)
(* followed after it is DONE.                                              *)
(***************************************************************************)

\* ghost: spell.elapsed at the step that took the spell from ACTIVE to FADING
FadeAt(before, after) ==
    IF before.state = "ACTIVE" /\ after.state = "FADING" THEN after.elapsed
    ELSE op.fade_at

\* spell.cast(x, y, particles, screen_fx), called once on the new object
SpellCastStep(x, y, rnd) ==
    /\ active_spells[1].state = "CASTING"
    /\ \E c \in {SpellCast(active_spells[1], x, y, screen_fx, rnd)} :
          /\ active_spells' = <<c.spell>>
          /\ screen_fx' = c.fx
          /\ particles' = EmitAll(particles, c.batches, max_particles)
          /\ op' = [name |-> "cast", ret |-> None,
                    dt |-> 0, fade_at |-> FadeAt(active_spells[1], c.spell)]
    /\ UNCHANGED <<clock, max_particles, next_pid, mana, cooldowns, next_sid,
                   audio_last, tracker, engine, armed, lateVars>>

\* spell.update(dt, particles, hand_x, hand_y), on a spell that was cast
SpellUpdateStep(dt, hand, rnd) ==
    /\ active_spells[1].state # "CASTING"
    /\ clock + dt <= StartClock + SpellSpan
    /\ clock' = clock + dt
    /\ \E u \in {SpellUpdate(active_spells[1], dt, hand[1], hand[2], rnd)} :
          /\ active_spells' = <<u.spell>>
          /\ particles' = EmitAll(particles, u.batches, max_particles)
          /\ op' = [name |-> "spell_update", ret |-> None,
                    dt |-> dt, fade_at |-> FadeAt(active_spells[1], u.spell)]
    /\ UNCHANGED <<max_particles, next_pid, mana, cooldowns, next_sid, screen_fx,
                   audio_last, tracker, engine, armed, lateVars>>

\* shield.dismiss(), in whatever state the shield is
SpellDismissStep ==
    /\ active_spells[1].kind = "Shield"
    /\ \E d \in {ShieldDismiss(active_spells[1])} :
          /\ active_spells' = <<d>>
          /\ op' = [name |-> "dismiss", ret |-> None,
                    dt |-> 0, fade_at |-> FadeAt(active_spells[1], d)]
    /\ UNCHANGED <<clock, max_particles, particles, next_pid, mana, cooldowns, next_sid,
                   screen_fx, audio_last, tracker, engine, armed, lateVars>>

\* spell.render(frame): draws on the frame, assigns no lifecycle field
SpellRenderStep ==
    /\ op.name # "render"
    /\ op' = [name |-> "render", ret |-> None,
              dt |-> 0, fade_at |-> op.fade_at]
    /\ UNCHANGED <<clock, max_particles, particles, next_pid, mana, cooldowns,
                   active_spells, next_sid, screen_fx, audio_last, tracker, engine, armed, lateVars>>

InitSpell ==
    /\ InitParticleEngine(SpellPool)
    /\ mana = ManaNew(DefaultCurrentMana, 8000)
    /\ cooldowns = [n \in {} |-> 0]
    /\ \E kind \in SpellKinds : active_spells = <<SpellNew(kind, 1)>>
    /\ next_sid = 2
    /\ screen_fx = NoEffects
    /\ audio_last = ""
    /\ clock = StartClock
    /\ tracker = TrackerNew
    /\ engine = EngineNew(StartClock)
    /\ op = [name |-> "new", ret |-> None, dt |-> 0, fade_at |-> -1]
    /\ armed = [n \in {} |-> [at |-> 0, duration |-> 0, via |-> ""]]
    /\ InitLate

NextSpell ==
    \/ \E rnd \in Draws : SpellCastStep(500, 500, rnd)
    \/ \E dt \in {100, 200}, hand \in {<<NoHand, NoHand>>, <<500, 500>>}, rnd \in Draws : SpellUpdateStep(dt, hand, rnd)
    \/ SpellDismissStep
    \/ SpellRenderStep

SpecSpell == InitSpell /\ [][NextSpell]_vars

(***************************************************************************)
(* SpecLifecycle: a SpellRegistry in which a few spells are cast through   *)
(* the registered keys and then followed, update by update, until the last *)
(* of them has gone.                                                       *)
(***************************************************************************)
LifeEvents == {<<"HOLD_START", "fist">>, <<"HOLD_START", "open_palm">>,
               <<"HOLD_START", "point">>, <<"HOLD_START", "pinch">>,
               <<"SWIPE_LEFT", "">>, <<"SWIPE_UP", "">>}

\* a handle_event that casts
LifeCast(event, gesture_name, rnd) ==
    /\ clock <= StartClock + LifeCastWindow
    /\ next_sid <= MaxCasts
    /\ \E h \in {HandleEventOn(Reg, event, 500, 500, gesture_name, rnd, clock,
                               max_particles)} :
          /\ h.ret # None
          /\ SetReg(h.reg)
          /\ op' = [name |-> "handle_event", ret |-> h.ret, event |-> event,
                    gesture_name |-> gesture_name, kind |-> h.kind]
          /\ armed' = Armed(armed, SpellClass(h.kind).name, SpellClass(h.kind).cooldown,
                            clock, EventToTrigger(event, gesture_name))
    /\ UNCHANGED <<clock, max_particles, next_pid, tracker, engine, lateVars>>

\* SpellRegistry.update(dt, hand_x, hand_y), dt later
LifeUpdate(dt, hand, rnd) ==
    /\ clock + dt <= StartClock + LifeSpan
    /\ clock' = clock + dt
    /\ \E R1 \in {RegistryUpdateOn(Reg, dt, hand[1], hand[2], rnd, max_particles)} :
          SetReg(R1)
    /\ op' = [name |-> "registry_update", ret |-> None, dt |-> dt]
    /\ UNCHANGED <<max_particles, next_pid, tracker, engine, armed, lateVars>>

\* SpellRegistry.render(frame): op.drawn lists the spells whose render was
\* called, in the order of the calls
LifeRender ==
    /\ op.name # "registry_render"
    /\ active_spells # <<>>
    /\ op' = [name |-> "registry_render", ret |-> None,
              drawn |-> [i \in 1..Len(active_spells) |-> active_spells[i].id]]
    /\ UNCHANGED <<clock, max_particles, particles, next_pid, mana, cooldowns,
                   active_spells, next_sid, screen_fx, audio_last, tracker, engine, armed, lateVars>>

InitLifecycle ==
    /\ InitParticleEngine(SpellPool)
    /\ InitRegistry(DefaultCurrentMana, 8000)
    /\ InitRest

NextLifecycle ==
    \/ \E ev \in LifeEvents, rnd \in Draws : LifeCast(ev[1], ev[2], rnd)
    \/ \E dt \in {100}, hand \in {<<NoHand, NoHand>>, <<500, 500>>}, rnd \in Draws : LifeUpdate(dt, hand, rnd)
    \/ LifeRender

SpecLifecycle == InitLifecycle /\ [][NextLifecycle]_vars

(***************************************************************************)
(* SpecSwipe: a GestureTracker fed hand positions only (the recognizer     *)
(* reports the gesture NONE throughout), to follow _detect_swipe over the  *)
(* position history.                                                       *)
(***************************************************************************)

\* One frame: time.time() has advanced by d, then GestureTracker.update(r)
\* with the hand at pt
SwipeFrame(d, pt) ==
    /\ clock + d <= StartClock + SwipeSpan
    /\ Len(tracker.position_history) < SwipeSamples
    /\ \E u \in {TrackerUpdate(tracker, Result("NONE", pt[1], pt[2]), clock + d)} :
          /\ clock' = clock + d
          /\ tracker' = u.tracker
          /\ op' = [name |-> "update", ret |-> None,
                    input |-> Result("NONE", pt[1], pt[2]),
                    state |-> u.state, swipe |-> u.swipe]
    /\ UNCHANGED <<max_particles, particles, next_pid, mana, cooldowns, active_spells,
                   next_sid, screen_fx, audio_last, engine, armed, lateVars>>

NextSwipe == \E d \in {20, 130}, pt \in {<<500, 500>>, <<800, 500>>, <<500, 800>>, <<800, 800>>} : SwipeFrame(d, pt)

SpecSwipe == InitTracker /\ [][NextSwipe]_vars

(***************************************************************************)
(* SpecHud: a WidgetRegistry with widgets registered, enabled and          *)
(* disabled, and driven frame by frame through update_all and render_all   *)
(***************************************************************************)
\* WidgetRegistry.register(widget), one widget of a class, before the first
\* frame. The widget is as HUDWidget.__init__ leaves it; updated and rendered
\* count the calls of its hooks and seen is the state.mode of the latest call.
RegisterWidget(name) ==
    /\ op.name \in {"init", "register", "set_enabled"}
    /\ \A i \in 1..Len(hud.widgets) : hud.widgets[i].name # name
    /\ hud' = [hud EXCEPT !.widgets = Append(@, [name |-> name, enabled |-> TRUE, updated |-> 0,
                                               rendered |-> 0, seen |-> ""])]
    /\ op' = [name |-> "register", ret |-> None]
    /\ UNCHANGED <<clock, max_particles, particles, next_pid, mana, cooldowns,
                   active_spells, next_sid, screen_fx, audio_last, tracker, engine,
                   armed, handles, threads, run>>

\* widget.enabled = b, before the first frame
SetEnabled(i, b) ==
    /\ op.name \in {"register", "set_enabled"}
    /\ i \in 1..Len(hud.widgets)
    /\ hud.widgets[i].enabled # b
    /\ hud' = [hud EXCEPT !.widgets[i].enabled = b]
    /\ op' = [name |-> "set_enabled", ret |-> None]
    /\ UNCHANGED <<clock, max_particles, particles, next_pid, mana, cooldowns,
                   active_spells, next_sid, screen_fx, audio_last, tracker, engine,
                   armed, handles, threads, run>>

\* One frame, d after the last: registry.update_all(state) with a fresh
\* HUDState of the given mode and gesture event. hud.trail keeps the latest
\* ModeMenu.update calls that had a gesture state, at most three, as
\* [event, from, to] with the menu's mode before and after.
HudUpdateAll(d, mode, event) ==
    /\ clock + d <= StartClock + HudSpan
    /\ \E u \in {UpdateLoop(hud.widgets, hud.menu, [mode |-> mode, event |-> event],
                            GetActive(hud.widgets, mode), 1, <<>>, clock + d)} :
       \E t \in {Append(hud.trail, [event |-> event, from |-> hud.menu.current_mode,
                                    to |-> u.menu.current_mode])} :
          /\ hud' = [widgets |-> u.widgets, menu |-> u.menu,
                     trail |-> IF event = NoGestureState
                                  \/ \A k \in 1..Len(u.visited) :
                                        hud.widgets[u.visited[k].at].name # "mode_menu"
                               THEN hud.trail
                               ELSE IF Len(t) > 3 THEN Tail(t) ELSE t]
          /\ op' = [name |-> "update_all", ret |-> None, mode |-> mode, event |-> event,
                    visited |-> u.visited, mode_out |-> u.state.mode]
    /\ clock' = clock + d
    /\ UNCHANGED <<max_particles, particles, next_pid, mana, cooldowns, active_spells,
                   next_sid, screen_fx, audio_last, tracker, engine, armed, handles,
                   threads, run>>

\* registry.render_all(overlay, state) with the state update_all left
HudRenderAll ==
    /\ op.name = "update_all"
    /\ hud' = [hud EXCEPT !.widgets = RenderAll(@, [mode |-> op.mode_out,
                                                    event |-> op.event])]
    /\ op' = [name |-> "render_all", ret |-> None, mode |-> op.mode_out,
              event |-> op.event, visited |-> GetActive(hud.widgets, op.mode_out)]
    /\ UNCHANGED <<clock, max_particles, particles, next_pid, mana, cooldowns,
                   active_spells, next_sid, screen_fx, audio_last, tracker, engine,
                   armed, handles, threads, run>>

NextHud ==
    \/ \E name \in {"mode_menu", "stats", "radar"} : RegisterWidget(name)
    \/ \E i \in 1..3, b \in BOOLEAN : SetEnabled(i, b)
    \/ \E d \in {500, 1200}, mode \in HUDMode,
          event \in {NoGestureState, "NONE", "SWIPE_LEFT", "SWIPE_RIGHT"} :
             HudUpdateAll(d, mode, event)
    \/ HudRenderAll

SpecHud == InitTracker /\ [][NextHud]_vars

(***************************************************************************)
(* SpecFx: a ScreenEffects object, its effects triggered and updated       *)
(* directly as the screen effect tests do. armed[e] keeps the duration of  *)
(* the latest trigger of effect e and the clock at it; update(dt) is       *)
(* called dt after the previous call.                                      *)
(***************************************************************************)
\* ScreenShake.trigger / ScreenFlash.trigger / ChromaticAberration.trigger
FxTrigger(e, strength, duration) ==
    /\ screen_fx' = CASE e = "shake" -> ShakeTrigger(screen_fx, strength, duration)
                      [] e = "flash" -> FlashTrigger(screen_fx, strength, duration)
                      [] e = "aberration" -> AberrationTrigger(screen_fx, strength, duration)
    /\ armed' = Armed(armed, e, duration, clock, "")
    /\ op' = [name |-> "fx_trigger", ret |-> None]
    /\ UNCHANGED <<clock, max_particles, particles, next_pid, mana, cooldowns,
                   active_spells, next_sid, audio_last, tracker, engine, lateVars>>

\* ScreenEffects.update(dt)
FxUpdate(dt) ==
    /\ clock + dt <= StartClock + FxSpan
    /\ clock' = clock + dt
    /\ screen_fx' = EffectsUpdate(screen_fx, dt)
    /\ op' = [name |-> "fx_update", ret |-> None]
    /\ UNCHANGED <<max_particles, particles, next_pid, mana, cooldowns, active_spells,
                   next_sid, audio_last, tracker, engine, armed, lateVars>>

NextFx ==
    \/ \E e \in {"shake", "flash", "aberration"}, strength \in {0, 5}, duration \in {150, 200} :
          FxTrigger(e, strength, duration)
    \/ \E dt \in {50, 100} : FxUpdate(dt)

SpecFx == InitTracker /\ [][NextFx]_vars

(***************************************************************************)
(* SpecMana: a ManaSystem driven by spend and regenerate directly, as the  *)
(* mana tests do                                                           *)
(***************************************************************************)
\* ManaSystem.spend(cost)
Spend(cost) ==
    /\ \E r \in {ManaSpend(mana, cost)} :
          /\ mana' = r.mana
          /\ op' = [name |-> "spend", ret |-> r.ok, cost |-> cost]
    /\ UNCHANGED <<clock, max_particles, particles, next_pid, cooldowns, active_spells,
                   next_sid, screen_fx, audio_last, tracker, engine, armed, lateVars>>

\* ManaSystem.regenerate(dt), dt after the previous call
Regenerate(dt) ==
    /\ clock + dt <= StartClock + ManaSpan
    /\ clock' = clock + dt
    /\ mana' = ManaRegenerate(mana, dt)
    /\ op' = [name |-> "regenerate", ret |-> None, dt |-> dt]
    /\ UNCHANGED <<max_particles, particles, next_pid, cooldowns, active_spells,
                   next_sid, screen_fx, audio_last, tracker, engine, armed, lateVars>>

NextMana ==
    \/ \E cost \in {0, 15000, 40000, 120000} : Spend(cost)
    \/ \E dt \in {100, 500} : Regenerate(dt)

SpecMana == InitSpecRegistry /\ [][NextMana]_vars

(***************************************************************************)
(* SpecCollab: the lazily initialised collaborators called frame after     *)
(* frame (HandTracker.process, ObjectDetector.detect) and AudioPlayer.play *)
(* with its playback threads, interleaved in any order.  threads[i].pc is  *)
(* the position of playback thread i in _play_array: "start" (before the   *)
(* with), "locked" (lock held), "playing" (sd.play returned, in sd.wait),  *)
(* "done"; out tells how it ended.                                         *)
(***************************************************************************)
\* self.hand_tracker.process(frame)
Process(ok, found) ==
    /\ handles.hand_tracker.initialized \/ handles.hand_tracker.attempts < MaxInitAttempts
    /\ \E r \in {HandTrackerProcess(handles.hand_tracker, ok, found)} :
          /\ handles' = [handles EXCEPT !.hand_tracker = r.hand_tracker]
          /\ op' = [name |-> "process", ret |-> r.ret]
    /\ UNCHANGED <<clock, max_particles, particles, next_pid, mana, cooldowns, active_spells,
                   next_sid, screen_fx, audio_last, tracker, engine, armed, hud, threads, run>>

\* ObjectDetector.detect(frame)
Detect(ok, found) ==
    /\ handles.detector.frame_counter < MaxDetectFrames
    /\ \E r \in {DetectorDetect(handles.detector, ok, found)} :
          /\ handles' = [handles EXCEPT !.detector = r.detector]
          /\ op' = [name |-> "detect", ret |-> r.ret]
    /\ UNCHANGED <<clock, max_particles, particles, next_pid, mana, cooldowns, active_spells,
                   next_sid, screen_fx, audio_last, tracker, engine, armed, hud, threads, run>>

\* AudioPlayer.play(spell_name): returns at once; a thread running
\* _play_array is started unless audio is disabled or the sound is unknown
Play(spell_name) ==
    /\ Len(threads) < MaxThreads
    /\ threads' = IF handles.audio.enabled
                     /\ spell_name \in {"fireball", "lightning", "shield", "force_push",
                                        "teleport", "wind"}
                  THEN Append(threads, [pc |-> "start", out |-> ""])
                  ELSE threads
    /\ op' = [name |-> "play", ret |-> None, started |-> Len(threads') - Len(threads)]
    /\ UNCHANGED <<clock, max_particles, particles, next_pid, mana, cooldowns, active_spells,
                   next_sid, screen_fx, audio_last, tracker, engine, armed, hud, handles, run>>

\* One step of playback thread i in _play_array. ok: sounddevice can be
\* imported; err: the backend call of this step (sd.play, sd.wait) raises
PlayArrayStep(i, ok, err) ==
    /\ i \in DOMAIN threads
    /\ \/ /\ threads[i].pc = "start"          \* with self._lock:
          /\ handles.audio.lock = 0
          /\ handles' = [handles EXCEPT !.audio.lock = i]
          /\ threads' = [threads EXCEPT ![i].pc = "locked"]
       \/ /\ threads[i].pc = "locked"         \* _ensure_init, then sd.play
          /\ \E r \in {EnsureInit(handles.audio, ok)} :
                IF r.ret /\ ~err
                THEN /\ handles' = [handles EXCEPT !.audio = r.audio]
                     /\ threads' = [threads EXCEPT ![i].pc = "playing"]
                ELSE /\ handles' = [handles EXCEPT !.audio = [r.audio EXCEPT !.lock = 0]]
                     /\ threads' = [threads EXCEPT ![i] =
                            [pc |-> "done", out |-> IF r.ret THEN "swallowed" ELSE "no backend"]]
       \/ /\ threads[i].pc = "playing"        \* sd.wait, end of the with block
          /\ handles' = [handles EXCEPT !.audio.lock = 0]
          /\ threads' = [threads EXCEPT ![i] =
                 [pc |-> "done", out |-> IF err THEN "swallowed" ELSE "played"]]
    /\ op' = [name |-> "play_array", ret |-> None, thread |-> i]
    /\ UNCHANGED <<clock, max_particles, particles, next_pid, mana, cooldowns, active_spells,
                   next_sid, screen_fx, audio_last, tracker, engine, armed, hud, run>>

NextCollab ==
    \/ \E ok \in BOOLEAN, found \in {"none", "hand"} : Process(ok, found)
    \/ \E ok \in BOOLEAN, found \in {"none", "cup", "error"} : Detect(ok, found)
    \/ \E n \in {"fireball", "unknown"} : Play(n)
    \/ \E i \in 1..MaxThreads, ok \in BOOLEAN, err \in BOOLEAN : PlayArrayStep(i, ok, err)

SpecCollab == InitTracker /\ [][NextCollab]_vars

(***************************************************************************)
(* SpecRecast: the Spell object of SpecSpell, on which cast may be called  *)
(* again once it is DONE                                                   *)
(***************************************************************************)
\* spell.cast(x, y, particles, screen_fx), called on a finished spell
SpellRecastStep(x, y, rnd) ==
    /\ active_spells[1].state = "DONE"
    /\ \E c \in {SpellCast(active_spells[1], x, y, screen_fx, rnd)} :
          /\ active_spells' = <<c.spell>>
          /\ screen_fx' = c.fx
          /\ particles' = EmitAll(particles, c.batches, max_particles)
          /\ op' = [name |-> "recast", ret |-> None,
                    dt |-> 0, fade_at |-> FadeAt(active_spells[1], c.spell)]
    /\ UNCHANGED <<clock, max_particles, next_pid, mana, cooldowns, next_sid,
                   audio_last, tracker, engine, armed, lateVars>>

NextRecast ==
    \/ \E rnd \in Draws : SpellCastStep(500, 500, rnd)
    \/ \E dt \in {100, 200}, rnd \in Draws :
          clock + dt <= StartClock + RecastSpan /\ SpellUpdateStep(dt, <<NoHand, NoHand>>, rnd)
    \/ SpellDismissStep
    \/ \E rnd \in Draws : SpellRecastStep(500, 500, rnd)

SpecRecast == InitSpell /\ [][NextRecast]_vars

(***************************************************************************)
(* SpecRun: SpellEngine.run from the call to its exit.  run.pc is the      *)
(* position in run(): "new" (not called), "loop" (at the while test),      *)
(* "key" (_process_frame returned, at cv2.waitKey), "returned", "raised"   *)
(* (left by an exception, after the finally block).                        *)
(***************************************************************************)
\* SpellEngine._cleanup, leaving run() as pc
Cleanup(e, H, pc) ==
    /\ engine' = [e EXCEPT !.running = FALSE]
    /\ handles' = CleanupHandles(H)
    /\ run' = [pc |-> pc, cleanups |-> run.cleanups + 1]

\* run() up to the loop; ok: camera.open() succeeds
RunStart(ok) ==
    /\ run.pc = "new"
    /\ handles' = [handles EXCEPT !.camera.cap = ok]
    /\ engine' = IF ok THEN [engine EXCEPT !.running = TRUE, !.last_time = clock] ELSE engine
    /\ run' = [run EXCEPT !.pc = IF ok THEN "loop" ELSE "returned"]
    /\ op' = [name |-> "run", ret |-> None]
    /\ UNCHANGED <<clock, max_particles, particles, next_pid, mana, cooldowns, active_spells,
                   next_sid, screen_fx, audio_last, tracker, armed, hud, threads>>

\* while self._running fails: the finally block runs and run() returns
RunExit ==
    /\ run.pc = "loop" /\ ~engine.running
    /\ Cleanup(engine, handles, "returned")
    /\ op' = [name |-> "exit", ret |-> None]
    /\ UNCHANGED <<clock, max_particles, particles, next_pid, mana, cooldowns, active_spells,
                   next_sid, screen_fx, audio_last, tracker, armed, hud, threads>>

\* One _process_frame with a frame read: the hand tracker is initialised on
\* first use (ok) and the frame goes through the pipeline
RunFrame(d, ok, r, rnd) ==
    /\ run.pc = "loop" /\ handles.camera.cap
    /\ clock + d <= StartClock + EngineSpan
    /\ \E h \in {HandTrackerProcess(handles.hand_tracker, ok,
                                     IF r = NoResult THEN "none" ELSE "hand")} :
          /\ FrameBody(d, IF h.ret = "none" THEN NoResult ELSE r, rnd)
          /\ handles' = [handles EXCEPT !.hand_tracker = h.hand_tracker]
    /\ run' = [run EXCEPT !.pc = "key"]

\* _process_frame when camera.read() returns None
RunReadFails ==
    /\ run.pc = "loop" /\ engine.running
    /\ engine' = [engine EXCEPT !.running = FALSE]
    /\ run' = [run EXCEPT !.pc = "key"]
    /\ op' = [name |-> "end_of_stream", ret |-> None]
    /\ UNCHANGED <<clock, max_particles, particles, next_pid, mana, cooldowns, active_spells,
                   next_sid, screen_fx, audio_last, tracker, armed, hud, handles, threads>>

\* _process_frame raises while the frame is converted for the hand tracker
\* (after _frame_count and _last_time were set): finally, then the exception
\* leaves run()
RunFrameRaises(d) ==
    /\ run.pc = "loop" /\ engine.running /\ handles.camera.cap
    /\ clock + d <= StartClock + EngineSpan
    /\ clock' = clock + d
    /\ Cleanup([engine EXCEPT !.frame_count = @ + 1, !.last_time = clock + d], handles, "raised")
    /\ op' = [name |-> "frame_raised", ret |-> None]
    /\ UNCHANGED <<max_particles, particles, next_pid, mana, cooldowns, active_spells,
                   next_sid, screen_fx, audio_last, tracker, armed, hud, threads>>

\* key = cv2.waitKey(1) & 0xFF; q or Esc breaks out of the loop
RunWaitKey(key) ==
    /\ run.pc = "key"
    /\ IF key \in {"q", "esc"} THEN Cleanup(engine, handles, "returned")
       ELSE run' = [run EXCEPT !.pc = "loop"] /\ UNCHANGED <<engine, handles>>
    /\ op' = [name |-> "wait_key", ret |-> None]
    /\ UNCHANGED <<clock, max_particles, particles, next_pid, mana, cooldowns, active_spells,
                   next_sid, screen_fx, audio_last, tracker, armed, hud, threads>>

\* SpellEngine.stop(), called while run() is in its loop
Stop ==
    /\ run.pc \in {"loop", "key"} /\ engine.running
    /\ engine' = [engine EXCEPT !.running = FALSE]
    /\ op' = [name |-> "stop", ret |-> None]
    /\ UNCHANGED <<clock, max_particles, particles, next_pid, mana, cooldowns, active_spells,
                   next_sid, screen_fx, audio_last, tracker, armed, lateVars>>

\* SpellEngine.__init__: _running is False until run() sets it
InitRun ==
    /\ InitParticleEngine(MaxPool)
    /\ InitRegistry(DefaultCurrentMana, 8000)
    /\ clock = StartClock
    /\ tracker = TrackerNew
    /\ engine = [EngineNew(StartClock) EXCEPT !.running = FALSE]
    /\ op = NoOp
    /\ armed = [n \in {} |-> [at |-> 0, duration |-> 0, via |-> ""]]
    /\ InitLate

NextRun ==
    \/ \E ok \in BOOLEAN : RunStart(ok)
    \/ \E r \in {NoResult, Result("FIST", 500, 500)}, ok \in BOOLEAN, rnd \in Draws :
          RunFrame(100, ok, r, rnd)
    \/ RunReadFails
    \/ RunFrameRaises(100)
    \/ \E key \in {"none", "q", "esc"} : RunWaitKey(key)
    \/ RunExit
    \/ Stop

SpecRun == InitRun /\ [][NextRun]_vars

(***************************************************************************)
(* SpecClassify: GestureRecognizer.classify applied to one hand after      *)
(* another: every finger map over the five fingers (Finger 0..4: thumb,    *)
(* index, middle, ring, pinky) and the empty map, with                     *)
(* thumb tip, index tip and wrist on both sides of the two thresholds      *)
(***************************************************************************)
\* The hands presented: finger maps S over all five fingers or the empty map
HandInputs ==
    {[finger_extended |-> [f \in D |-> f \in S],
      thumb_tip |-> [x |-> 500, y |-> ty],
      index_tip |-> [x |-> ip[1], y |-> ip[2]],
      wrist |-> [x |-> 500, y |-> wy]] :
        S \in SUBSET (0..4), D \in {{}, 0..4}, ty \in {400, 500},
        ip \in {<<530, 540>>, <<530, 530>>, <<700, 300>>}, wy \in {580, 581}}

\* recognizer.classify(hand) on the hand held in op
ClassifyStep ==
    /\ op.name = "hand"
    /\ op' = [name |-> "classify", ret |-> Classify(op.hand), hand |-> op.hand]
    /\ UNCHANGED <<clock, max_particles, particles, next_pid, mana, cooldowns, active_spells,
                   next_sid, screen_fx, audio_last, tracker, engine, armed, lateVars>>

InitClassify ==
    /\ InitParticleEngine(MaxPool)
    /\ InitRegistry(DefaultCurrentMana, 8000)
    /\ clock = StartClock
    /\ tracker = TrackerNew
    /\ engine = EngineNew(StartClock)
    /\ \E hand \in HandInputs : op = [name |-> "hand", ret |-> None, hand |-> hand]
    /\ armed = [n \in {} |-> [at |-> 0, duration |-> 0, via |-> ""]]
    /\ InitLate

NextClassify == ClassifyStep

SpecClassify == InitClassify /\ [][NextClassify]_vars

(***************************************************************************)
(* SpecHold: a GestureTracker fed one GestureResult (or None) per frame;   *)
(* op.open tells whether a HOLD_START has been returned that no HOLD_END   *)
(* has followed yet.                                                       *)
(***************************************************************************)
HoldOpen == op.name = "update" /\ op.open

\* One frame: time.time() has advanced by d, then GestureTracker.update(r)
HoldFrame(d, r) ==
    /\ clock + d <= StartClock + TrackerSpan
    /\ \E u \in {TrackerUpdate(tracker, r, clock + d)} :
          /\ clock' = clock + d
          /\ tracker' = u.tracker
          /\ op' = [name |-> "update", ret |-> None, input |-> r, state |-> u.state,
                    open |-> CASE u.state.event = "HOLD_START" -> TRUE
                               [] u.state.event = "HOLD_END" -> FALSE
                               [] OTHER -> HoldOpen]
    /\ UNCHANGED <<max_particles, particles, next_pid, mana, cooldowns, active_spells,
                   next_sid, screen_fx, audio_last, engine, armed, lateVars>>

NextHold == \E d \in {50, 300}, r \in TrackerInputs : HoldFrame(d, r)

SpecHold == InitTracker /\ [][NextHold]_vars

(***************************************************************************)
(* SpecSteady: a GestureTracker updated at a steady 30 frames per second   *)
(* with the hand always present: the hand rests at x = 0.5, may move right *)
(* by 0.1 per frame up to x = 0.8, and rests again.                        *)
(***************************************************************************)
\* One frame, 33 ms after the previous one, with the hand centre at (x, 0.5)
SteadyFrame(x) ==
    /\ clock + 33 <= StartClock + SteadySpan
    /\ x \in (IF op.name = "update" THEN {op.input.x, Min(op.input.x + 100, 800)} ELSE {500})
    /\ \E u \in {TrackerUpdate(tracker, Result("NONE", x, 500), clock + 33)} :
          /\ clock' = clock + 33
          /\ tracker' = u.tracker
          /\ op' = [name |-> "update", ret |-> None, input |-> Result("NONE", x, 500),
                    state |-> u.state, swipe |-> u.swipe]
    /\ UNCHANGED <<max_particles, particles, next_pid, mana, cooldowns, active_spells,
                   next_sid, screen_fx, audio_last, engine, armed, lateVars>>

NextSteady == \E x \in {500, 600, 700, 800} : SteadyFrame(x)

SpecSteady == InitTracker /\ [][NextSteady]_vars

(***************************************************************************)
(* SpecGesture: SpellEngine._handle_gesture_event called on an engine that *)
(* has seen no hand yet (_last_gesture_name is ""), followed by registry   *)
(* updates                                                                 *)
(***************************************************************************)
\* self._handle_gesture_event(event, hand_x, hand_y)
GestureEventStep(event, hx, hy, rnd) ==
    /\ \E g \in {HandleGestureEvent(Reg, engine, event, hx, hy, rnd, clock, max_particles)} :
          /\ SetReg(g.reg)
          /\ engine' = g.engine
          /\ op' = [name |-> "gesture_event", ret |-> g.ret, event |-> event, kind |-> g.kind]
    /\ UNCHANGED <<clock, max_particles, next_pid, tracker, armed, lateVars>>

NextGesture ==
    \/ \E event \in {"SWIPE_LEFT", "SWIPE_RIGHT", "SWIPE_UP", "TAP"}, rnd \in Draws :
          GestureEventStep(event, 500, 500, rnd)
    \/ \E d \in {100, 400}, rnd \in Draws : RegistryUpdate(d, NoHand, NoHand, rnd)

SpecGesture == InitEngine /\ [][NextGesture]_vars

(***************************************************************************)
(* SpecShield: SpellEngine frames 100 ms apart with a fist, an open palm   *)
(* or no hand, long enough for two holds                                   *)
(***************************************************************************)
ShieldFrame(d, r, rnd) ==
    /\ clock + d <= StartClock + ShieldSpan
    /\ FrameBody(d, r, rnd)
    /\ UNCHANGED <<handles, run>>

NextShield ==
    \E r \in {NoResult, Result("FIST", 500, 500), Result("OPEN_PALM", 500, 500)}, rnd \in Draws :
       ShieldFrame(100, r, rnd)

SpecShield == InitEngine /\ [][NextShield]_vars

(***************************************************************************)
(* Properties                                                              *)
(***************************************************************************)
Ids(list) == {list[i].id : i \in 1..Len(list)}

\* the class a trigger key maps to and whether handle_event must cast it,
\* read off the state in which handle_event is called
KeyOf(o) == EventToTrigger(o.event, o.gesture_name)
Mapped(o) == KeyOf(o) # "" /\ KeyOf(o) \in DOMAIN GestureMap
ClassOf(o) == SpellClass(GestureMap[KeyOf(o)])

\* C1: when the trigger key composed from (event, gesture_name) maps to a
\* spell type S, S is off cooldown and current_mana >= S.mana_cost,
\* handle_event deducts exactly S.mana_cost, arms S's cooldown for S.cooldown
\* from now, appends exactly one new S instance (ACTIVE, alive) at the end of
\* the active list and returns it.
C1_SuccessfulCast ==
    [][(/\ op'.name = "handle_event"
        /\ Mapped(op')
        /\ CooldownIsReady(cooldowns, ClassOf(op').name, clock)
        /\ mana.current_mana >= ClassOf(op').mana_cost)
       => LET n == Len(active_spells)
              new == active_spells'[n + 1]
          IN /\ mana'.current_mana = mana.current_mana - ClassOf(op').mana_cost
             /\ mana'.max_mana = mana.max_mana
             /\ ClassOf(op').name \in DOMAIN cooldowns'
             /\ cooldowns'[ClassOf(op').name] = clock + ClassOf(op').cooldown
             /\ \A other \in DOMAIN cooldowns \ {ClassOf(op').name} :
                    cooldowns'[other] = cooldowns[other]
             /\ Len(active_spells') = n + 1
             /\ SubSeq(active_spells', 1, n) = active_spells
             /\ new.kind = GestureMap[KeyOf(op')]
             /\ new.state = "ACTIVE"
             /\ IsAlive(new)
             /\ new.id \notin Ids(active_spells)
             /\ op'.ret = new.id]_vars

\* C1 witness: scenario A, a Fireball cast by swipe_up takes mana from 100 to 80
C1_Witness ==
    /\ op.name = "handle_event"
    /\ op.ret # None
    /\ op.kind = "Fireball"
    /\ op.event = "SWIPE_UP" /\ op.gesture_name = ""
    /\ mana.current_mana = 80000
    /\ active_spells[Len(active_spells)].id = op.ret

\* C2: a rejected handle_event (no base key, unmapped key, cooldown not
\* elapsed, or mana below the cost) returns None and leaves mana, the cooldown
\* table, the active list, the particle pool and the screen effects unchanged.
C2_RejectedIsNoOp ==
    [][(/\ op'.name = "handle_event"
        /\ \/ ~Mapped(op')
           \/ ~CooldownIsReady(cooldowns, ClassOf(op').name, clock)
           \/ mana.current_mana < ClassOf(op').mana_cost)
       => /\ op'.ret = None
          /\ UNCHANGED <<mana, cooldowns, active_spells, particles, screen_fx, lateVars>>]_vars

\* C2 witness: a mapped spell that is off cooldown is refused for lack of mana
C2_Witness ==
    /\ op.name = "handle_event"
    /\ op.ret = None
    /\ Mapped(op)
    /\ CooldownIsReady(cooldowns, ClassOf(op).name, clock)
    /\ mana.current_mana < ClassOf(op).mana_cost
    /\ active_spells # <<>>

\* C3: in SpellEngine a SWIPE_UP frame casts a Fireball whenever Fireball is
\* off cooldown and affordable, and a SWIPE_LEFT or SWIPE_RIGHT frame casts
\* Wind whenever Wind is.
C3_SwipeSpellsCastable ==
    op.name = "frame" =>
        /\ (op.event = "SWIPE_UP" /\ "Fireball" \in op.castable) => op.kind = "Fireball"
        /\ (op.event \in {"SWIPE_LEFT", "SWIPE_RIGHT"} /\ "Wind" \in op.castable)
               => op.kind = "Wind"

\* C4: feeding the same gesture G (different from the confirmed gesture) on
\* consecutive updates changes current_gesture to G on the N-th of them
\* (N = debounce_frames) and never earlier.
C4_DebounceOnNth ==
    (/\ op.name = "update"
     /\ op.input # NoResult
     /\ op.base # op.input.gesture)
    => /\ op.run < DebounceFrames => tracker.current_gesture # op.input.gesture
       /\ op.run = DebounceFrames => tracker.current_gesture = op.input.gesture

\* C5: a swipe detected in an update is the event that update returns.
C5_SwipeIsTheEvent ==
    (op.name = "update" /\ op.swipe # "NONE") => op.state.event = op.swipe

\* C6: emit(batch) with remaining capacity R appends exactly the first
\* min(|batch|, max(R, 0)) particles of the batch in input order and leaves
\* the held particles untouched; count <= max_particles always.
C6_EmitAdmitsPrefix ==
    /\ [](Len(particles) <= max_particles)
    /\ [][op'.name = "emit"
          => LET R == max_particles - Len(particles)
                 n == Min(Len(op'.batch), Max(R, 0))
             IN /\ Len(particles') = Len(particles) + n
                /\ \A i \in 1..Len(particles) : particles'[i] = particles[i]
                /\ \A i \in 1..n : particles'[Len(particles) + i] = op'.batch[i]]_vars

\* C6 witness: a batch larger than the remaining capacity was cut: its first
\* particle was admitted, its last one dropped, and the pool is full
C6_Witness ==
    /\ op.name = "emit"
    /\ Len(op.batch) = 2
    /\ Len(particles) = max_particles
    /\ op.batch[1].id \in Ids(particles)
    /\ op.batch[2].id \notin Ids(particles)

\* C7: right after update(dt) every particle held satisfies age < lifetime,
\* alpha > 0.01 and size > 0.5 (the ones that died in this update are gone),
\* and the survivors keep their relative order.
C7_OnlyTheLivingRemain ==
    /\ op.name = "update"
          => \A i \in 1..Len(particles) :
                 /\ particles[i].age < particles[i].lifetime
                 /\ particles[i].alpha > 10
                 /\ particles[i].size > 500
    /\ \A i, j \in 1..Len(particles) : i < j => particles[i].id < particles[j].id

\* C7 witness: an update with dt > 0 removed a particle and kept two others
C7_Witness ==
    /\ op.name = "update"
    /\ op.dt > 0
    /\ op.before > Len(particles)
    /\ Len(particles) >= 2

\* C8: 0 <= current_mana <= max_mana in every reachable state of the
\* registry's mana pool, from the freshly constructed pool onward.
C8_ManaWithinBounds ==
    0 <= mana.current_mana /\ mana.current_mana <= mana.max_mana

C10_CooldownPerSpellType ==
    [][(op'.name = "handle_event" /\ Mapped(op') /\ ClassOf(op').name \in DOMAIN armed)
       => LET since == clock - armed[ClassOf(op').name].at
          IN /\ since < ClassOf(op').cooldown => op'.ret = None
             /\ op'.ret # None => since >= ClassOf(op').cooldown]_vars

\* C10 witness: Wind cast through swipe_left is refused through swipe_right
\* while its cooldown runs
C10_Witness ==
    /\ op.name = "handle_event"
    /\ op.event = "SWIPE_RIGHT"
    /\ op.ret = None
    /\ "wind" \in DOMAIN armed
    /\ armed["wind"].via = "swipe_left"
    /\ clock - armed["wind"].at < SpellClass("Wind").cooldown
    /\ clock > armed["wind"].at

\* position of a lifecycle state in the order CASTING, ACTIVE, FADING, DONE
Rank(state) ==
    CASE state = "CASTING" -> 0
      [] state = "ACTIVE"  -> 1
      [] state = "FADING"  -> 2
      [] state = "DONE"    -> 3

\* C11: update, dismiss and render never move a spell to an earlier
\* lifecycle state, and DONE is terminal: once is_alive() is false it stays
\* false.
C11_StateOnlyForward ==
    [][op'.name \in {"spell_update", "dismiss", "render"}
       => /\ Rank(active_spells'[1].state) >= Rank(active_spells[1].state)
          /\ ~IsAlive(active_spells[1]) => ~IsAlive(active_spells'[1])]_vars

\* C11 witness: a spell that is DONE was updated again, well after its end
C11_Witness ==
    /\ op.name = "spell_update"
    /\ active_spells[1].kind = "Teleport"
    /\ active_spells[1].state = "DONE"
    /\ active_spells[1].elapsed >= 1000

\* C12 (as stated): a spell enters DONE only from FADING, whatever its type.
C12_DoneOnlyFromFading ==
    [][(IsAlive(active_spells[1]) /\ ~IsAlive(active_spells'[1]))
       => active_spells[1].state = "FADING"]_vars

\* C12 (amended): Fireball and Shield enter DONE only from FADING; Wind,
\* Lightning, ForcePush and Teleport are never FADING and enter DONE directly
\* from ACTIVE.
C12_DoneFromFadingOrActive ==
    /\ [](active_spells[1].kind \notin {"Fireball", "Shield"}
             => active_spells[1].state # "FADING")
    /\ [][(IsAlive(active_spells[1]) /\ ~IsAlive(active_spells'[1]))
          => active_spells[1].state =
                 IF active_spells[1].kind \in {"Fireball", "Shield"}
                 THEN "FADING" ELSE "ACTIVE"]_vars

\* C12 witness: a Wind is DONE at the update that completes its duration
C12_Witness ==
    /\ op.name = "spell_update"
    /\ active_spells[1].kind = "Wind"
    /\ active_spells[1].state = "DONE"
    /\ active_spells[1].elapsed = 800

\* C14: Shield.dismiss() moves an ACTIVE shield to FADING and changes nothing
\* else but the dismissed flag; in CASTING, FADING and DONE it changes nothing.
C14_DismissOnlyWhenActive ==
    [][op'.name = "dismiss"
       => active_spells'[1] =
              IF active_spells[1].state = "ACTIVE"
              THEN [active_spells[1] EXCEPT !.state = "FADING", !.dismissed = TRUE]
              ELSE active_spells[1]]_vars

\* C14 witness: dismiss called again on a shield that is already fading
C14_Witness ==
    /\ op.name = "dismiss"
    /\ active_spells[1].state = "FADING"
    /\ active_spells[1].dismissed
    /\ active_spells[1].elapsed > op.fade_at
    /\ op.fade_at >= 0

\* the time a fully expanded shield (radius = _target_radius) takes to shrink
\* to nothing at the fade speed
ShieldFadeTime == 80000 \div 300

\* C15: a shield dismissed while ACTIVE stays alive until the fade time has
\* passed since the dismissal, whenever it was dismissed.
C15_FadeLastsFadeTime ==
    (/\ active_spells[1].kind = "Shield"
     /\ active_spells[1].state = "DONE"
     /\ active_spells[1].dismissed)
    => active_spells[1].elapsed - op.fade_at >= ShieldFadeTime

\* the longest a spell of each type is alive when updated in steps of 0.1 s:
\* its duration; for Fireball the flight and the fade after the explosion;
\* for Shield the auto-expiry and the fade of a fully expanded shield
LifeLimit(kind) ==
    CASE kind = "Fireball"  -> 1200 + 800
      [] kind = "Wind"      -> 800
      [] kind = "Shield"    -> 5000 + ShieldFadeTime
      [] kind = "Lightning" -> 600
      [] kind = "ForcePush" -> 800
      [] kind = "Teleport"  -> 500

\* C13: every spell cast through handle_event leaves the active list under
\* repeated SpellRegistry.update(dt > 0) with no dismissal: no spell in the
\* list is older than the life span of its type, and a spell that left the
\* list never comes back.
C13_EverySpellEnds ==
    /\ [](\A i \in 1..Len(active_spells) :
              /\ IsAlive(active_spells[i])
              /\ active_spells[i].elapsed <= LifeLimit(active_spells[i].kind))
    /\ [][\A id \in Ids(active_spells') : id \in Ids(active_spells) \/ id >= next_sid]_vars

\* C13 witness: a Shield that nobody dismissed has expired, faded and left
\* the list 5.3 s after its cast, the other spells being long gone
C13_Witness ==
    /\ op.name = "registry_update"
    /\ "shield" \in DOMAIN armed
    /\ clock - armed["shield"].at = 5300
    /\ next_sid > MaxCasts
    /\ active_spells = <<>>

\* C16: SpellRegistry.update(dt) regenerates mana, updates every listed spell
\* exactly once and then filters: afterwards every listed spell is alive, each
\* is dt older, exactly the spells whose update left them alive remain, in
\* their insertion order; render draws the listed spells in that order.
C16_UpdateThenFilter ==
    /\ [][op'.name = "registry_update"
          => /\ mana'.current_mana =
                    Min(mana.max_mana, mana.current_mana + (mana.regen_rate * op'.dt) \div 1000)
             /\ \A j \in 1..Len(active_spells') : IsAlive(active_spells'[j])
             /\ \A i \in 1..Len(active_spells) :
                    LET after == SpellUpdate(active_spells[i], op'.dt, NoHand, NoHand, 0).spell
                    IN (active_spells[i].id \in Ids(active_spells')) <=> IsAlive(after)
             /\ \A i \in 1..Len(active_spells), j \in 1..Len(active_spells') :
                    active_spells'[j].id = active_spells[i].id
                        => active_spells'[j].elapsed = active_spells[i].elapsed + op'.dt
             /\ Ids(active_spells') \subseteq Ids(active_spells)]_vars
    /\ [](\A i, j \in 1..Len(active_spells) :
              i < j => active_spells[i].id < active_spells[j].id)
    /\ [](op.name = "registry_render"
              => op.drawn = [i \in 1..Len(active_spells) |-> active_spells[i].id])

\* C16 witness: of three spells the middle one was filtered out by an update
\* and the two others are still listed, first before third
C16_Witness ==
    /\ op.name = "registry_update"
    /\ Len(active_spells) = 2
    /\ active_spells[1].id = 1
    /\ active_spells[2].id = 3


\* C17: GestureTracker.update(None) returns a state whose current_gesture is
\* NONE and leaves the tracker with confirmed gesture NONE and not holding;
\* its event is HOLD_END if the tracker was holding, TAP if it was not holding
\* and the active non-NONE gesture lasted strictly between 0 and
\* tap_max_duration, and NONE otherwise.
C17_NoHandEndsGesture ==
    [][(op'.name = "update" /\ op'.input = NoResult) =>
          /\ op'.state.current_gesture = "NONE"
          /\ tracker'.current_gesture = "NONE"
          /\ ~tracker'.is_holding
          /\ op'.state.event =
                IF tracker.is_holding THEN "HOLD_END"
                ELSE IF /\ tracker.current_gesture # "NONE"
                        /\ 0 < clock' - ConfirmedSince
                        /\ clock' - ConfirmedSince < TapMaxDuration
                     THEN "TAP"
                ELSE "NONE"]_vars

\* C17 witness: a held gesture was ended by the loss of the hand
C17_Witness ==
    /\ op.name = "update"
    /\ op.input = NoResult
    /\ op.state.event = "HOLD_END"
    /\ tracker.current_gesture = "NONE"
    /\ ~tracker.is_holding

\* C18: TAP is returned only by an update in which the confirmed gesture ends
\* (a confirmed change to a different gesture, or the loss of the hand), and
\* only when the tracker was not holding and the ended gesture lasted strictly
\* between 0 and tap_max_duration; an update that leaves the confirmed
\* gesture unchanged never returns TAP.
C18_TapOnlyWhenGestureEnds ==
    [][(op'.name = "update" /\ op'.state.event = "TAP") =>
          /\ tracker'.current_gesture # tracker.current_gesture
          /\ \/ op'.input = NoResult
             \/ op'.input.gesture = tracker'.current_gesture
          /\ ~tracker.is_holding
          /\ 0 < clock' - ConfirmedSince
          /\ clock' - ConfirmedSince < TapMaxDuration]_vars

\* C18 witness: a short gesture was ended by a confirmed change to another
\* gesture with the hand in view, and the update returned TAP
C18_Witness ==
    /\ op.name = "update"
    /\ op.input # NoResult
    /\ op.state.event = "TAP"
    /\ op.base # "NONE"
    /\ tracker.current_gesture = op.input.gesture
    /\ op.since = clock

\* C19 as stated: HOLD_START only when the time elapsed since the start of
\* the gesture exceeds hold_duration (strictly)
C19_HoldStartAfterExceeding ==
    [][(op'.name = "update" /\ op'.state.event = "HOLD_START") =>
          clock' - tracker.gesture_start_time > HoldDuration]_vars

\* C19: HOLD_START is emitted at most once per confirmed gesture (it needs a
\* tracker that is not holding and leaves it holding, and a holding tracker
\* stays so until the confirmed gesture ends), and only by an update whose
\* input gesture is the already confirmed gesture, with the tracker not yet
\* holding, the time elapsed since the start of the gesture at least
\* hold_duration, and no swipe detected in that update.
C19_HoldStartOncePerGesture ==
    [][/\ (op'.name = "update" /\ op'.state.event = "HOLD_START") =>
             /\ op'.input # NoResult
             /\ op'.input.gesture = tracker.current_gesture
             /\ tracker'.current_gesture = tracker.current_gesture
             /\ tracker.current_gesture # "NONE"
             /\ ~tracker.is_holding
             /\ tracker'.is_holding
             /\ op'.state.is_holding
             /\ tracker.gesture_start_time = ConfirmedSince
             /\ clock' - ConfirmedSince >= HoldDuration
             /\ op'.swipe = "NONE"
       /\ (tracker.is_holding /\ tracker'.current_gesture = tracker.current_gesture) =>
             tracker'.is_holding]_vars

\* C19 witness: HOLD_START was emitted exactly hold_duration after the start
\* of the gesture
C19_Witness ==
    /\ op.name = "update"
    /\ op.state.event = "HOLD_START"
    /\ tracker.is_holding
    /\ clock - tracker.gesture_start_time = HoldDuration

\* C20: with at least 5 samples in the position history and a span of 0.1 to
\* 0.5 s between the oldest and the newest, update detects SWIPE_RIGHT or
\* SWIPE_LEFT (by the sign of dx) when |dx| > swipe_threshold and |dx| > |dy|,
\* SWIPE_DOWN or SWIPE_UP (by the sign of dy) when |dy| > swipe_threshold and
\* |dy| > |dx|, and no swipe in every other case; a detected swipe empties
\* the history, and otherwise the history keeps the new sample.
C20_SwipeDetection ==
    [][(op'.name = "update" /\ op'.input # NoResult) =>
          LET h == Append(tracker.position_history,
                          [x |-> op'.input.x, y |-> op'.input.y, t |-> clock'])
              n == Len(h)
              span == h[n].t - h[1].t
              dx == h[n].x - h[1].x
              dy == h[n].y - h[1].y
              swipe == IF n < 5 \/ span < 100 \/ span > 500 THEN "NONE"
                       ELSE IF Abs(dx) > SwipeThreshold /\ Abs(dx) > Abs(dy)
                            THEN (IF dx > 0 THEN "SWIPE_RIGHT" ELSE "SWIPE_LEFT")
                       ELSE IF Abs(dy) > SwipeThreshold /\ Abs(dy) > Abs(dx)
                            THEN (IF dy > 0 THEN "SWIPE_DOWN" ELSE "SWIPE_UP")
                       ELSE "NONE"
          IN /\ op'.swipe = swipe
             /\ tracker'.position_history = IF swipe = "NONE" THEN h ELSE <<>>]_vars

\* C20 witness: a vertical swipe was detected and the history is empty
C20_Witness ==
    /\ op.name = "update"
    /\ op.swipe = "SWIPE_UP"
    /\ op.state.event = "SWIPE_UP"
    /\ tracker.position_history = <<>>


\* C21: update_all(state) and render_all(overlay, state) invoke the hook of
\* exactly the widgets that are enabled and whose active_modes contain
\* state.mode, once each and in list order; a widget that is inactive for
\* state.mode has no hook invoked and its fields stay as they were.
C21_OnlyActiveWidgetsInvoked ==
    [][(op'.name \in {"update_all", "render_all"}) =>
          LET W == hud.widgets
              active == {i \in 1..Len(W) :
                            W[i].enabled /\ op'.mode \in ActiveModes(W[i].name)}
              at == [k \in 1..Len(op'.visited) |->
                        IF op'.name = "update_all" THEN op'.visited[k].at
                        ELSE op'.visited[k]]
          IN /\ Range(at) = active
             /\ \A j, k \in 1..Len(at) : j < k => at[j] < at[k]
             /\ Len(hud'.widgets) = Len(W)
             /\ \A i \in 1..Len(W) :
                   IF i \in active
                   THEN IF op'.name = "update_all"
                        THEN /\ hud'.widgets[i].updated = W[i].updated + 1
                             /\ hud'.widgets[i].rendered = W[i].rendered
                        ELSE /\ hud'.widgets[i].rendered = W[i].rendered + 1
                             /\ hud'.widgets[i].updated = W[i].updated
                   ELSE hud'.widgets[i] = W[i]
             /\ (\A i \in active : W[i].name # "mode_menu") => hud'.menu = hud.menu]_vars

\* C21 witness (scenario E): after update_all and render_all under
\* NAVIGATION an enabled radar, active in COMBAT and SCAN only, was never
\* invoked while the stats panel next to it was updated and rendered
C21_Witness ==
    /\ op.name = "render_all"
    /\ op.mode = "NAVIGATION"
    /\ \E i, j \in 1..Len(hud.widgets) :
          /\ hud.widgets[i].name = "radar"
          /\ hud.widgets[i].enabled
          /\ hud.widgets[i].updated = 0
          /\ hud.widgets[i].rendered = 0
          /\ hud.widgets[j].name = "stats"
          /\ hud.widgets[j].updated > 0
          /\ hud.widgets[j].rendered > 0

\* C22: when a swipe makes the ModeMenu change the mode during
\* update_all(state), with state.mode the menu's mode before, the widgets
\* updated after the ModeMenu in that call are exactly the enabled widgets
\* behind it that are active in the new mode, and each sees the new mode.
C22_ModeChangeSameFrame ==
    [][(/\ op'.name = "update_all"
        /\ op'.event \in {"SWIPE_LEFT", "SWIPE_RIGHT"}
        /\ op'.mode = hud.menu.current_mode
        /\ \E k \in 1..Len(op'.visited) :
              hud.widgets[op'.visited[k].at].name = "mode_menu") =>
          LET W == hud.widgets
              m == CHOOSE i \in 1..Len(W) : W[i].name = "mode_menu"
              new_mode == hud'.menu.current_mode
              after == {op'.visited[k].at : k \in {j \in 1..Len(op'.visited) :
                                                      op'.visited[j].at > m}}
          IN /\ new_mode # hud.menu.current_mode
             /\ after = {i \in (m + 1)..Len(W) :
                            W[i].enabled /\ new_mode \in ActiveModes(W[i].name)}
             /\ \A k \in 1..Len(op'.visited) :
                   op'.visited[k].at > m => op'.visited[k].saw = new_mode]_vars

\* C23: ModeMenu.update moves the current mode one position forward in
\* COMBAT, SCAN, NAVIGATION (wrapping) on SWIPE_RIGHT, one position back on
\* SWIPE_LEFT, and leaves it unchanged on every other event; SWIPE_LEFT
\* followed by SWIPE_RIGHT (or the reverse) and three swipes in the same
\* direction restore the mode.
C23_ModeCycle ==
    [][(op'.name = "update_all") =>
          LET W == hud.widgets
              menu_ran == \E k \in 1..Len(op'.visited) :
                             W[op'.visited[k].at].name = "mode_menu"
              forward == [m \in HUDMode |->
                             CASE m = "COMBAT" -> "SCAN"
                               [] m = "SCAN" -> "NAVIGATION"
                               [] m = "NAVIGATION" -> "COMBAT"]
              old == hud.menu.current_mode
              new == hud'.menu.current_mode
              t == hud'.trail
              n == Len(t)
          IN /\ (menu_ran /\ op'.event = "SWIPE_RIGHT") => new = forward[old]
             /\ (menu_ran /\ op'.event = "SWIPE_LEFT") => forward[new] = old
             /\ (~menu_ran \/ op'.event \notin {"SWIPE_LEFT", "SWIPE_RIGHT"}) => new = old
             /\ (/\ n >= 2
                 /\ {t[n - 1].event, t[n].event} = {"SWIPE_LEFT", "SWIPE_RIGHT"})
                   => t[n].to = t[n - 1].from
             /\ (/\ n = 3
                 /\ t[1].event = t[2].event
                 /\ t[2].event = t[3].event
                 /\ t[1].event \in {"SWIPE_LEFT", "SWIPE_RIGHT"})
                   => t[3].to = t[1].from]_vars

\* C23 witness: three SWIPE_LEFT in a row, through the wrap-around, brought
\* the menu back to COMBAT
C23_Witness ==
    /\ op.name = "update_all"
    /\ Len(hud.trail) = 3
    /\ \A k \in 1..3 : hud.trail[k].event = "SWIPE_LEFT"
    /\ hud.trail[1].from = "COMBAT"
    /\ hud.trail[1].to = "NAVIGATION"
    /\ hud.menu.current_mode = "COMBAT"


\* C24: an effect triggered with positive strength and duration D > 0 is
\* active exactly while the dt accumulated by the update calls since that
\* trigger is below D (so it is active right after the trigger, inactive once
\* the accumulated dt reaches D and from then on until the next trigger); an
\* effect never triggered is inactive; ScreenEffects.active is true exactly
\* when at least one of the three effects is active.
C24_EffectActiveForDuration ==
    LET active == [e \in {"shake", "flash", "aberration"} |->
                      CASE e = "shake" -> ShakeActive(screen_fx)
                        [] e = "flash" -> FlashActive(screen_fx)
                        [] e = "aberration" -> AberrationActive(screen_fx)]
        strength == [e \in {"shake", "flash", "aberration"} |->
                        CASE e = "shake" -> screen_fx.shake.intensity
                          [] e = "flash" -> screen_fx.flash.intensity
                          [] e = "aberration" -> screen_fx.aberration.shift]
    IN /\ \A e \in DOMAIN active :
             IF e \in DOMAIN armed
             THEN (strength[e] > 0 /\ armed[e].duration > 0)
                     => (active[e] <=> clock - armed[e].at < armed[e].duration)
             ELSE ~active[e]
       /\ EffectsActive(screen_fx) <=> \E e \in DOMAIN active : active[e]

\* C24 witness: the flash ran out (updates went on after its duration had
\* been reached) while a shake triggered later is still active
C24_Witness ==
    /\ op.name = "fx_update"
    /\ {"shake", "flash"} \subseteq DOMAIN armed
    /\ screen_fx.flash.intensity > 0
    /\ clock - armed["flash"].at > armed["flash"].duration
    /\ ~FlashActive(screen_fx)
    /\ ShakeActive(screen_fx)
    /\ EffectsActive(screen_fx)

\* C25: ManaSystem.spend(cost) on a pool with current_mana < cost returns
\* False and leaves the pool unchanged; with current_mana >= cost it returns
\* True and current_mana is lower by exactly cost afterwards.
C25_SpendChecksBalance ==
    [][op'.name = "spend" =>
          IF mana.current_mana < op'.cost
          THEN op'.ret = FALSE /\ mana' = mana
          ELSE /\ op'.ret = TRUE
               /\ mana'.current_mana = mana.current_mana - op'.cost
               /\ mana'.max_mana = mana.max_mana
               /\ mana'.regen_rate = mana.regen_rate]_vars

\* a spend was refused on a pool that still held some mana, after an
\* earlier spend had been granted
C25_Witness ==
    /\ op.name = "spend"
    /\ op.ret = FALSE
    /\ op.cost = 40000
    /\ mana.current_mana > 0
    /\ mana.current_mana < DefaultCurrentMana

\* C26: each lazily initialised handle (HandTracker, ObjectDetector,
\* AudioPlayer) attempts its initialisation at most once; after a failed
\* attempt no later process/detect/play call attempts it again.
C26_SingleInitAttempt ==
    /\ handles.hand_tracker.attempts <= 1
    /\ handles.detector.attempts <= 1
    /\ handles.audio.attempts <= 1

\* C27: a spell in state DONE is never moved back to ACTIVE; calling cast
\* again on a finished spell fails with an assertion and leaves the state.
C27_DoneNeverActiveAgain ==
    [][active_spells[1].state = "DONE" => active_spells'[1].state # "ACTIVE"]_vars

\* C28: the frame loop of SpellEngine.run terminates. Once camera.read()
\* returned None or stop() was called (_running is False inside run), no
\* further frame is processed, _running stays False and run() only moves on
\* to its exit, without an exception; and whenever run() has been left after
\* the camera was opened, by return or by an exception of a frame, _cleanup
\* has run exactly once: camera and hand tracker are released.
C28_LoopTerminatesAndCleansUp ==
    [][/\ (run.pc \in {"loop", "key"} /\ ~engine.running) =>
             /\ engine'.frame_count = engine.frame_count
             /\ ~engine'.running
             /\ op'.name \notin {"frame", "frame_raised"}
             /\ \/ run.pc = "key" /\ run'.pc \in {"loop", "returned"}
                \/ run.pc = "loop" /\ run'.pc = "returned"
       /\ op'.name = "end_of_stream" => ~engine'.running /\ run'.pc = "key"
       /\ op'.name = "stop" => ~engine'.running /\ run'.pc = run.pc
       /\ run'.pc \in {"loop", "key"} => run'.cleanups = 0 /\ handles'.camera.cap
       /\ (run'.pc \in {"returned", "raised"} /\ op'.name # "run") =>
             /\ run'.cleanups = 1
             /\ ~engine'.running
             /\ ~handles'.camera.cap
             /\ ~handles'.hand_tracker.landmarker
             /\ ~handles'.hand_tracker.initialized
       /\ run.pc \in {"returned", "raised"} => run' = run]_vars

\* a frame raised after the hand tracker had been initialised by an earlier
\* frame, and run() was left through the finally block
C28_Witness ==
    /\ run.pc = "raised"
    /\ run.cleanups = 1
    /\ engine.frame_count >= 2
    /\ handles.hand_tracker.attempts = 1
    /\ ~handles.hand_tracker.landmarker
    /\ ~handles.camera.cap

\* C29: classify is a total first-match decision list over the fingers
\* extended, the pinch predicate (thumb tip to index tip closer than 0.05)
\* and the thumb-up predicate (wrist.y - thumb_tip.y > 0.08): no finger gives
\* FIST, all five OPEN_PALM, else pinch gives PINCH, else only the thumb with
\* thumb-up gives THUMBS_UP, else only the index gives POINT, else exactly
\* index and thumb gives POINT, else exactly index and middle gives PEACE,
\* else NONE with confidence 0.5; the result depends on the hand alone.
C29_FirstMatchDecisionList ==
    op.name = "classify" =>
       LET ext == op.hand.finger_extended
           up == {f \in 0..4 : f \in DOMAIN ext /\ ext[f]}
           dx == op.hand.thumb_tip.x - op.hand.index_tip.x
           dy == op.hand.thumb_tip.y - op.hand.index_tip.y
           pinch == dx * dx + dy * dy < 2500
           thumb_up == op.hand.wrist.y - op.hand.thumb_tip.y > 80
           expected == CASE up = {} -> "FIST"
                         [] Cardinality(up) = 5 -> "OPEN_PALM"
                         [] Cardinality(up) \in 1..4 /\ pinch -> "PINCH"
                         [] Cardinality(up) \in 1..4 /\ ~pinch /\ up = {0} /\ thumb_up
                              -> "THUMBS_UP"
                         [] ~pinch /\ up = {1} -> "POINT"
                         [] ~pinch /\ up = {0, 1} -> "POINT"
                         [] ~pinch /\ up = {1, 2} -> "PEACE"
                         [] OTHER -> "NONE"
       IN /\ op.ret.gesture = expected
          /\ expected = "NONE" => op.ret.confidence = 500

\* a hand with no finger extended whose thumb and index tips touch was
\* classified: FIST wins over PINCH
C29_Witness ==
    /\ op.name = "classify"
    /\ op.ret.gesture = "FIST"
    /\ DOMAIN op.hand.finger_extended # {}
    /\ op.hand.index_tip = [x |-> 530, y |-> 530]
    /\ op.hand.thumb_tip = [x |-> 500, y |-> 500]

\* C30: audio playback is fire-and-forget and race-free. AudioPlayer.play
\* returns without waiting (it only starts a thread, whatever the other
\* playback threads are doing); under any interleaving of the playback
\* threads the backend is initialised at most once, at most one thread is in
\* the backend's play/wait section (the one holding the lock), and a backend
\* error ends the thread with the lock released, touching nothing of the
\* engine, the registry or the frame loop.
C30_FireAndForgetRaceFree ==
    [][LET inside(T) == {i \in DOMAIN T : T[i].pc \in {"locked", "playing"}}
       IN /\ op'.name = "play" =>
                /\ handles' = handles
                /\ \A i \in DOMAIN threads : threads'[i] = threads[i]
                /\ op'.started = 1 =>
                      threads'[Len(threads')] = [pc |-> "start", out |-> ""]
          /\ handles'.audio.attempts <= 1
          /\ Cardinality(inside(threads')) <= 1
          /\ \A i \in inside(threads') : handles'.audio.lock = i
          /\ inside(threads') = {} => handles'.audio.lock = 0
          /\ \A i \in DOMAIN threads' :
                threads'[i].pc = "done" <=> threads'[i].out \in {"played", "swallowed", "no backend"}
          /\ op'.name = "play_array" =>
                /\ engine' = engine /\ run' = run /\ mana' = mana
                /\ active_spells' = active_spells /\ cooldowns' = cooldowns
                /\ \A i \in DOMAIN threads : i # op'.thread => threads'[i] = threads[i]]_vars

\* play returned with its thread started while an earlier playback thread
\* holds the lock inside sd.wait
C30_Witness ==
    /\ op.name = "play"
    /\ op.started = 1
    /\ Len(threads) = 2
    /\ threads[1].pc = "playing"
    /\ threads[2].pc = "start"
    /\ handles.audio.lock = 1

\* C31: HOLD_START and HOLD_END returned by update strictly alternate,
\* starting with HOLD_START: a HOLD_END is returned only while a HOLD_START
\* is open, and a HOLD_START only while none is.
C31_HoldEventsAlternate ==
    [][op'.name = "update" =>
          /\ op'.state.event = "HOLD_END" => HoldOpen
          /\ op'.state.event = "HOLD_START" => ~HoldOpen]_vars

\* C32: with updates at a steady 30 per second and the hand always present,
\* a displacement of the hand centre larger than swipe_threshold that is
\* completed within 0.1 to 0.5 s is reported as a swipe within that window,
\* however many samples the tracker holds: the history (cleared by every
\* reported swipe) never holds such a displacement whose window has passed.
C32_SwipeNotStarved ==
    LET h == tracker.position_history
    IN ~ \E i \in 1..Len(h), k \in 1..Len(h) :
            /\ i < k
            /\ h[k].x - h[i].x > SwipeThreshold
            /\ h[k].t - h[i].t >= SwipeMinSpan
            /\ h[k].t - h[i].t <= SwipeMaxSpan
            /\ h[Len(h)].t - h[i].t > SwipeMaxSpan

\* C33: a swipe is computed only from samples of one uninterrupted hand
\* presence; samples from before an update(None) are never compared with
\* samples after it. In particular the first update after an update(None),
\* which holds a single sample of the new presence, detects no swipe.
C33_NoSwipeAcrossHandLoss ==
    [][(op.name = "update" /\ op.input = NoResult /\ op'.name = "update") =>
          op'.swipe = "NONE"]_vars

\* C34: TAP is returned only by an update that ends a confirmed gesture
\* other than NONE (so a confirmed gesture period yields at most one TAP and
\* the end of a NONE period yields none).
C34_TapEndsConfirmedGesture ==
    [][(op'.name = "update" /\ op'.state.event = "TAP") =>
          tracker.current_gesture # "NONE"]_vars

\* C35: a Wind cast for SWIPE_LEFT blows only leftward and one cast for
\* SWIPE_RIGHT only rightward: the debris emitted while the event is
\* handled, the initial burst of cast included, has horizontal velocity of
\* the sign of the swipe.
C35_WindBlowsWithTheSwipe ==
    [][(op'.name = "gesture_event" /\ op'.kind = "Wind") =>
          \A i \in 1..Len(particles') :
             i > Len(particles) =>
                IF op'.event = "SWIPE_LEFT" THEN particles'[i].vx < 0
                ELSE particles'[i].vx > 0]_vars

\* C36: in SpellEngine the Shield cast by a fist HOLD_START is dismissed in
\* the frame in which the tracker reports the HOLD_END of that hold: at the
\* end of that frame no shield is ACTIVE, the engine holds no shield any
\* more, and at most one Shield is ACTIVE at any time.
C36_ShieldDismissedWithHoldEnd ==
    [][LET active(L) == {i \in 1..Len(L) : L[i].kind = "Shield" /\ L[i].state = "ACTIVE"}
       IN /\ Cardinality(active(active_spells')) <= 1
          /\ (op'.name = "frame" /\ op'.event = "HOLD_END") =>
                /\ active(active_spells') = {}
                /\ \A i \in active(active_spells) :
                      \A j \in 1..Len(active_spells') :
                         active_spells'[j].id = active_spells[i].id =>
                            /\ active_spells'[j].state \in {"FADING", "DONE"}
                            /\ active_spells'[j].dismissed]_vars

\* the frame of a HOLD_END has left the shield of a second hold FADING
C36_Witness ==
    /\ op.name = "frame"
    /\ op.event = "HOLD_END"
    /\ \E j \in 1..Len(active_spells) :
          /\ active_spells[j].kind = "Shield"
          /\ active_spells[j].state = "FADING"
          /\ active_spells[j].id >= 2


\* C37: after ModeMenu.update(state) returns, state.mode equals the menu's
\* current mode, also for a state whose gesture_state is None. Stated on
\* update_all calls whose loop reached the mode menu: the state.mode they
\* leave is the mode the menu has.
C37_StateModeFollowsMenu ==
    (/\ op.name = "update_all"
     /\ \E k \in 1..Len(op.visited) : hud.widgets[op.visited[k].at].name = "mode_menu")
        => op.mode_out = hud.menu.current_mode


\* C38: in every reachable GestureTracker state, and in every GestureState
\* update returns, is_holding true implies that the confirmed current
\* gesture is not GestureType.NONE.
C38_HoldingImpliesGesture ==
    /\ tracker.is_holding => tracker.current_gesture # "NONE"
    /\ op.name = "update" =>
          (op.state.is_holding => op.state.current_gesture # "NONE")

\* A hold goes on: the tracker is holding a confirmed FIST and the update
\* after the one that returned HOLD_START returns a holding state again
C38_Witness ==
    /\ op.name = "update"
    /\ tracker.is_holding
    /\ tracker.current_gesture = "FIST"
    /\ op.state.is_holding
    /\ op.state.current_gesture = "FIST"
    /\ op.state.event = "NONE"

====
